---- MODULE Spec2Model ----
(***************************************************************************)
(* stimulus-reactive: the wrapped lifecycle methods and callbacks that     *)
(* useStimulusReactive installs on a controller prototype, the per         *)
(* instance reactive marker { state, scope } and the effects / computeds   *)
(* registered through it.  The controllers are the ones of the test file:  *)
(* one CartController ("cart") with the outlet "cart-item",                 *)
(* CartItemControllers with the values price and quantity, and the         *)
(* DebugController "parent" of the lifecycle test, which declares every    *)
(* handler.                                                                *)
(*                                                                         *)
(* The reactivity engine (@vue/reactivity) is not part of the repository;  *)
(* its primitives (shallowReactive, shallowRef, effect, computed,          *)
(* effectScope) are modelled at the places where the source calls them.    *)
(***************************************************************************)
EXTENDS Integers, Sequences, FiniteSets, TLC

VARIABLES
  reactive,     \* this.__reactive of every controller instance (id 0: absent)
  scopes,       \* per instance: the EffectScopes created for it, [active]
  effects,      \* per instance: the ReactiveEffects registered through effect()
  computeds,    \* per instance: the ComputedRefs registered through computed()
  dom,          \* the cart's targets, which the cart's effects write to
  phase,        \* the host's view of each controller's lifecycle
  hostOutlets,  \* the outlets the host has connected and not yet disconnected
  calls,        \* the original handlers the last delivered handler invoked
  seen,         \* what the original handler found when it was invoked
  ret,          \* what the last call handed back to its caller
  replaced,     \* the array a caller read from the collection cell before it
                \* called an outlet callback, as that array is after the call
  definition,   \* the controller class that is being loaded, if one is
  discovered    \* what useStimulusReactive found on that class's prototype

vars == <<reactive, scopes, effects, computeds, dom, phase, hostOutlets, calls,
          seen, ret, replaced, definition, discovered>>

----------------------------------------------------------------------------
(* Bounds of the model *)

MaxVal == 1        \* values assigned to a value property are 0..MaxVal
MaxScopes == 2     \* scopes created per instance (bounds the disconnects)
MaxCallbacks == 2  \* callbacks a caller registers through one instance
MaxLen == 3        \* elements of a collection when the callbacks come in any order
MaxCycles == 2     \* disconnects of an instance whose scopes are followed
MaxDeclared == 2   \* value names, and outlet names, a loaded class declares
MaxDepth == 2      \* classes between a loaded class's own prototype and Controller

----------------------------------------------------------------------------
(* The controllers of the test file *)

Cart == "cart"
Items == {"item1", "item2"}

(* the DebugController "parent" of the lifecycle test, which declares      *)
(* every handler, and the controllers its outlet selector can match; of    *)
(* those only the identity is used                                         *)
Parent == "parent"
Children == {"child1", "child2"}
Controllers == {Cart, Parent} \cup Items

(* JavaScript values: undefined, NaN and the numbers *)
Undefined == <<"undefined">>
NaN == <<"NaN">>
Num(n) == <<"num", n>>
Numbers == {Num(n) : n \in 0..MaxVal}

IsNum(a) == a[1] = "num"
Mul(a, b) == IF IsNum(a) /\ IsNum(b) THEN Num(a[2] * b[2]) ELSE NaN
Add(a, b) == IF IsNum(a) /\ IsNum(b) THEN Num(a[2] + b[2]) ELSE NaN
LeqZero(a) == IsNum(a) /\ a[2] <= 0

(* an array object by its contents, and no array *)
Array(coll) == <<"array", coll>>
NoArray == <<"none", <<>>>>

(* what a call hands back: a value, or an error thrown *)
Returned(value) == <<"return", value>>
Thrown(error) == <<"throw", error>>

(* Object.is, the engine's change test on a reactive property *)
hasChanged(value, oldValue) == value # oldValue

----------------------------------------------------------------------------
(* useStimulusReactive: the names found on the prototype *)

values(c) ==
  IF c \in Items THEN {"priceValue", "quantityValue"}
  ELSE IF c = Parent THEN {"propertyValue"} ELSE {}
outlets(c) ==
  IF c = Cart THEN {"cartItemOutlet"}
  ELSE IF c = Parent THEN {"debugOutlet"} ELSE {}
outletsKey(key) == key \o "s"
outletKeys(c) == {outletsKey(key) : key \in outlets(c)}

(* methods: the original handlers found on the prototype chain.  The base  *)
(* Controller declares initialize and disconnect (CartController overrides *)
(* disconnect); the cart and the items declare no callback, the            *)
(* DebugController declares all of them                                    *)
methods(c) ==
  {"initialize", "disconnect"} \cup
  (IF c = Parent
   THEN {"propertyValueChanged", "debugOutletConnected", "debugOutletDisconnected"}
   ELSE {})

(* controller.element, the second argument of the outlet callbacks: the    *)
(* element the controller is attached to                                   *)
element(controller) == <<"element", controller>>

(* the call as it would be if the original handler were invoked again     *)
(* after it returned                                                       *)
callOriginalTwice(c, name, args) ==
  IF name \in methods(c) THEN <<<<name, c>> \o args, <<name, c>> \o args>>
  ELSE <<>>

(* methods[name]?.value?.call(this, ...args): the original handler, when   *)
(* there is one, is invoked once with the arguments given                  *)
callOriginal(c, name, args) ==
  IF name \in methods(c) THEN <<<<name, c>> \o args>> ELSE <<>>

HasMarker(c) == reactive[c].id # 0

(* the host delivers <v>ValueChanged with the initial value of every value *)
(* after initialize and before connect and before the controller is        *)
(* handed to another controller as an outlet                               *)
HasValues(c) == HasMarker(c) /\ \A key \in values(c) : reactive[c].state[key] # Undefined
NoMarker == [id |-> 0, stateId |-> 0, state |-> <<>>, scope |-> 0]

(* the cells of the engine: a property of a shallowReactive state, the     *)
(* value slot of a shallowRef, a computed's value                          *)
PropCell(c, key) == <<"prop", c, key>>
RefCell(c, key) == <<"ref", c, key>>
ComputedCell(c, m) == <<"computed", c, m>>

----------------------------------------------------------------------------
(* The accessors _initialize defines on the instance *)

(* get() of a value property: this.__reactive.state[key] *)
valueGet(R, c, key) == R[c].state[key]

(* get() of the collection o+s: this.__reactive.state[outletsKey].value *)
outletsGet(R, c, key) == R[c].state[outletsKey(key)]

(* a controller and a boolean as values *)
Ref(controller) == <<"controller", controller>>
Bool(b) == <<"bool", b>>

(* get() of the outlet o as it would be if it returned undefined for an    *)
(* empty collection                                                        *)
outletGetOrUndefined(R, c, key, original) ==
  IF Len(R[c].state[outletsKey(key)]) > 0
  THEN Returned(Ref(R[c].state[outletsKey(key)][1]))
  ELSE Returned(Undefined)

(* get() of has+O: this.__reactive.state[outletsKey].value.length > 0 *)
hasOutletGet(R, c, key) == Len(R[c].state[outletsKey(key)]) > 0

(* get() of the outlet o: ref.value[0] ?? originalGet.call(this); original *)
(* is what the original accessor does when it is called: it returns the    *)
(* controller the host finds, or throws                                    *)
outletGet(R, c, key, original) ==
  IF Len(R[c].state[outletsKey(key)]) > 0
  THEN Returned(Ref(R[c].state[outletsKey(key)][1]))
  ELSE original

----------------------------------------------------------------------------
(* The callbacks the test controllers hand to effect() and computed():     *)
(* what each reads (the cells the engine tracks) and what each produces.   *)

(* CartController.connect, the computed total:                             *)
(*   this.cartItemOutlets.reduce((total, item) =>                          *)
(*       total + item.priceValue * item.quantityValue, 0)                  *)
RECURSIVE reduceTotal(_, _, _)
reduceTotal(R, coll, n) ==
  IF n = 0 THEN Num(0)
  ELSE Add(reduceTotal(R, coll, n - 1),
           Mul(valueGet(R, coll[n], "priceValue"),
               valueGet(R, coll[n], "quantityValue")))

(* the outlet of an instance that declares one *)
OutletOf(c) == CHOOSE key \in outlets(c) : TRUE

(* callbacks a caller hands to effect() or computed() of an instance:      *)
(*   count  () => c.<o>s.length, the callback of the outlets test          *)
(*   first  () => c.has<O> ? c.<o> : undefined, which reads the singular   *)
(*          accessor and nothing else of the collection                    *)
(* Both read the property <o>s of the shallowReactive state and the value  *)
(* of the shallowRef it holds; the array itself is not reactive.           *)
firstOutlet(c, R) ==
  IF hasOutletGet(R, c, OutletOf(c))
  THEN outletGet(R, c, OutletOf(c), Thrown("missing outlet"))[2]
  ELSE Undefined

OutletReads(c) ==
  {PropCell(c, outletsKey(OutletOf(c))), RefCell(c, outletsKey(OutletOf(c)))}

ComputedFns == {"total", "count", "first"}

ComputedValue(fn, c, R) ==
  CASE fn = "total" ->
         LET coll == outletsGet(R, c, "cartItemOutlet")
         IN reduceTotal(R, coll, Len(coll))
    [] fn = "count" -> Num(Len(outletsGet(R, c, OutletOf(c))))
    [] fn = "first" -> firstOutlet(c, R)

ComputedReads(fn, c, R) ==
  CASE fn = "total" ->
         LET coll == outletsGet(R, c, "cartItemOutlet")
         IN {PropCell(c, outletsKey("cartItemOutlet")),
             RefCell(c, outletsKey("cartItemOutlet"))}
            \cup UNION {{PropCell(coll[n], "priceValue"),
                         PropCell(coll[n], "quantityValue")} : n \in 1..Len(coll)}
    [] fn \in {"count", "first"} -> OutletReads(c)

(* the effects:                                                            *)
(*   itemTotal  CartItemController.connect: totalTarget.textContent =      *)
(*              (priceValue * quantityValue).toString(); the item's target *)
(*              is not part of the model, the reads are                    *)
(*   checkout   CartController.connect: checkoutTarget.disabled =          *)
(*              total.value <= 0                                           *)
(*   cartTotal  CartController.connect: cartTotalTarget.textContent =      *)
(*              total.value.toString()                                     *)
(*   count      () => cart.cartItemOutlets.length (the callback of the     *)
(*              outlets test; it writes no target)                         *)
(*   first      the callback first above; it keeps what it read            *)
(*   property   () => c.propertyValue; it keeps what it read               *)
EffectFns == {"itemTotal", "checkout", "cartTotal", "count", "first", "property"}

EffectReads(e, c, R) ==
  CASE e.fn = "itemTotal" ->
         {PropCell(c, "priceValue"), PropCell(c, "quantityValue")}
    [] e.fn \in {"checkout", "cartTotal"} -> {ComputedCell(c, e.uses)}
    [] e.fn \in {"count", "first"} -> OutletReads(c)
    [] e.fn = "property" -> {PropCell(c, "propertyValue")}

EffectWrites(e, c, R, C, D) ==
  CASE e.fn = "itemTotal" -> D
    [] e.fn = "checkout" ->
         [D EXCEPT !.checkout = LeqZero(C[c][e.uses].value)]
    [] e.fn = "cartTotal" ->
         [D EXCEPT !.cartTotal = C[c][e.uses].value]
    [] e.fn = "count" -> D
    [] e.fn = "first" -> [D EXCEPT !.first = firstOutlet(c, R)]
    [] e.fn = "property" -> [D EXCEPT !.property = valueGet(R, c, "propertyValue")]

----------------------------------------------------------------------------
(* The engine.  W is the engine's world: E the effects, C the computeds,   *)
(* D the targets; R is the reactive markers (the stores) as they are when  *)
(* the callbacks run.                                                      *)

(* reading computedRef.value: a dirty computed runs its getter once and    *)
(* tracks what it read; a clean one returns the cached value               *)
Refresh(C, c, m, R) ==
  LET k == C[c][m]
  IN IF k.dirty
     THEN [C EXCEPT ![c][m] =
             [k EXCEPT !.dirty = FALSE,
                       !.value = ComputedValue(k.fn, c, R),
                       !.deps = IF k.active THEN ComputedReads(k.fn, c, R) ELSE {},
                       !.evals = @ + 1]]
     ELSE C

(* one run of an effect: the callback runs, its dependencies are the       *)
(* cells this run read                                                     *)
RunEffect(W, c, n, R) ==
  LET e == W.E[c][n]
      C1 == IF e.uses # 0 THEN Refresh(W.C, c, e.uses, R) ELSE W.C
  IN [E |-> [W.E EXCEPT ![c][n] =
               [e EXCEPT !.deps = EffectReads(e, c, R), !.runs = @ + 1]],
      C |-> C1,
      D |-> EffectWrites(e, c, R, C1, W.D)]

RECURSIVE RunAll(_, _, _)
RunAll(W, ids, R) ==
  IF ids = {} THEN W
  ELSE LET id == CHOOSE x \in ids : TRUE
       IN RunAll(RunEffect(W, id[1], id[2], R), ids \ {id}, R)

(* the live subscribers of a cell *)
EffectsOn(E, cell) ==
  UNION {{<<c, n>> : n \in {x \in 1..Len(E[c]) :
                              E[c][x].active /\ cell \in E[c][x].deps}} :
         c \in Controllers}

ComputedsOn(C, cell) ==
  UNION {{<<c, m>> : m \in {x \in 1..Len(C[c]) :
                              C[c][x].active /\ cell \in C[c][x].deps}} :
         c \in Controllers}

(* a dependency of a computed changed: the computed becomes dirty and      *)
(* notifies the effects that read it.  Engines before 3.4 re-run those     *)
(* effects at once (eager); later engines re-evaluate the computed first   *)
(* and re-run them only when its value changed.                            *)
TriggerComputed(W, c, m, R, eager) ==
  LET k == W.C[c][m]
      subs == EffectsOn(W.E, ComputedCell(c, m))
      C1 == [W.C EXCEPT ![c][m].dirty = TRUE, ![c][m].invals = @ + 1]
      C2 == Refresh(C1, c, m, R)
  IN IF k.dirty THEN [W EXCEPT !.C[c][m].invals = @ + 1]
     ELSE IF subs = {} THEN [W EXCEPT !.C = C1]
     ELSE IF eager \/ hasChanged(C2[c][m].value, k.value)
          THEN RunAll([W EXCEPT !.C = C2], subs, R)
          ELSE [W EXCEPT !.C = C2]

RECURSIVE TriggerComputeds(_, _, _, _)
TriggerComputeds(W, ids, R, eager) ==
  IF ids = {} THEN W
  ELSE LET id == CHOOSE x \in ids : TRUE
       IN TriggerComputeds(TriggerComputed(W, id[1], id[2], R, eager),
                           ids \ {id}, R, eager)

(* trigger(cell): every live subscriber of the cell is notified once,      *)
(* synchronously, before the write returns                                 *)
Trigger(W, cell, R, eager) ==
  RunAll(TriggerComputeds(W, ComputedsOn(W.C, cell), R, eager),
         EffectsOn(W.E, cell), R)

(* the counters of the world count what the handler being delivered does   *)
World ==
  [E |-> [c \in Controllers |->
            [n \in 1..Len(effects[c]) |-> [effects[c][n] EXCEPT !.runs = 0]]],
   C |-> [c \in Controllers |->
            [m \in 1..Len(computeds[c]) |->
               [computeds[c][m] EXCEPT !.evals = 0, !.invals = 0]]],
   D |-> dom]

(* what a handler finds when it looks at the stores, the targets and the   *)
(* runs of the effects                                                     *)
observe(W, R) ==
  [state |-> [c \in Controllers |-> R[c].state],
   D |-> W.D,
   runs |-> [c \in Controllers |->
               [n \in 1..Len(W.E[c]) |-> W.E[c][n].runs]]]

----------------------------------------------------------------------------
(* The scope manager: effectScope(), scope.stop(), effect, computed *)

(* effectScope(): a new, active scope; its identity is its position among  *)
(* the scopes created for the instance                                     *)
effectScope(S, c) == [S EXCEPT ![c] = Append(@, TRUE)]

(* scope.stop() as it would be if it stopped the computeds of the scope    *)
(* and left its effects subscribed                                         *)
scopeStopComputeds(W, c, s) ==
  [W EXCEPT
     !.C[c] = [m \in 1..Len(@) |->
                 IF @[m].scope = s
                 THEN [@[m] EXCEPT !.active = FALSE, !.deps = {},
                                   !.dirty = TRUE, !.value = Undefined]
                 ELSE @[m]]]

(* scope.stop(): the scope becomes inactive and every effect and computed  *)
(* recorded in it is stopped and unsubscribed from the cells it read.  No  *)
(* callback of the model keeps the handle of a stopped computed, so its    *)
(* cache is dropped with it.                                               *)
scopeStop(W, c, s) ==
  [W EXCEPT
     !.E[c] = [n \in 1..Len(@) |->
                 IF @[n].scope = s
                 THEN [@[n] EXCEPT !.active = FALSE, !.deps = {}]
                 ELSE @[n]],
     !.C[c] = [m \in 1..Len(@) |->
                 IF @[m].scope = s
                 THEN [@[m] EXCEPT !.active = FALSE, !.deps = {},
                                   !.dirty = TRUE, !.value = Undefined]
                 ELSE @[m]]]

(* effect(fn) as it would be if it kept using the scope that _initialize   *)
(* created                                                                 *)
effectFirstScope(W, R, S, c, fn, uses) ==
  LET e == [scope |-> 1, fn |-> fn, uses |-> uses, active |-> TRUE,
            deps |-> {}, runs |-> 0]
  IN IF S[c][1]
     THEN RunEffect([W EXCEPT !.E[c] = Append(@, e)], c, Len(W.E[c]) + 1, R)
     ELSE W

(* effect(fn): this.__reactive.scope.run(() => vueEffect(fn)); run() of an *)
(* inactive scope does not call its argument                               *)
effect(W, R, S, c, fn, uses) ==
  LET s == R[c].scope
      e == [scope |-> s, fn |-> fn, uses |-> uses, active |-> TRUE,
            deps |-> {}, runs |-> 0]
  IN IF S[c][s]
     THEN RunEffect([W EXCEPT !.E[c] = Append(@, e)], c, Len(W.E[c]) + 1, R)
     ELSE W

(* computed(fn): this.__reactive.scope.run(() => vueComputed(fn)); the     *)
(* getter does not run before the first read of .value                     *)
computed(W, R, S, c, fn) ==
  LET s == R[c].scope
      k == [scope |-> s, fn |-> fn, active |-> TRUE, dirty |-> TRUE,
            value |-> Undefined, deps |-> {}, evals |-> 0, invals |-> 0]
  IN IF S[c][s] THEN [W EXCEPT !.C[c] = Append(@, k)] ELSE W

----------------------------------------------------------------------------
(* The property interceptor *)

(* _initialize as it would be without the loop over the outlets *)
_initializeValues(R, S, c) ==
  [R EXCEPT ![c] =
     [id |-> R[c].id + 1,
      stateId |-> R[c].stateId + 1,
      state |-> [k \in values(c) |-> Undefined],
      scope |-> Len(S[c]) + 1]]

(* _initialize: the marker, an undefined cell per value, an empty          *)
(* shallowRef per outlet                                                   *)
_initialize(R, S, c) ==
  [R EXCEPT ![c] =
     [id |-> R[c].id + 1,
      stateId |-> R[c].stateId + 1,
      state |-> [k \in values(c) \cup outletKeys(c) |->
                   IF k \in values(c) THEN Undefined ELSE <<>>],
      scope |-> Len(S[c]) + 1]]

(* this.__reactive.state[key] = value on the shallowReactive state: the    *)
(* subscribers of the property are triggered when the value changed        *)
setState(W, R, c, key, value, eager) ==
  LET R1 == [R EXCEPT ![c].state[key] = value]
  IN [R |-> R1,
      W |-> IF hasChanged(value, R[c].state[key])
            THEN Trigger(W, PropCell(c, key), R1, eager)
            ELSE W]

(* ref.value = <a new array> as it would be if the arrays were compared by *)
(* their contents                                                          *)
setRefIfChanged(W, R, c, key, coll, eager) ==
  LET R1 == [R EXCEPT ![c].state[key] = coll]
  IN [R |-> R1,
      W |-> IF coll = R[c].state[key] THEN W
            ELSE Trigger(W, RefCell(c, key), R1, eager)]

(* ref.value = <a new array> as it would be if the subscribers were told   *)
(* only when the first element is another one                              *)
setRefFirst(W, R, c, key, coll, eager) ==
  LET R1 == [R EXCEPT ![c].state[key] = coll]
      old == R[c].state[key]
      same == IF old = <<>> \/ coll = <<>> THEN old = coll ELSE old[1] = coll[1]
  IN [R |-> R1,
      W |-> IF same THEN W ELSE Trigger(W, RefCell(c, key), R1, eager)]

(* ref.value = <a new array>: the array is a new object on every call, so  *)
(* the shallowRef always triggers                                          *)
setRef(W, R, c, key, coll, eager) ==
  LET R1 == [R EXCEPT ![c].state[key] = coll]
  IN [R |-> R1, W |-> Trigger(W, RefCell(c, key), R1, eager)]

(* [controller, ...ref.value] *)
spreadFirst(coll, controller) == <<controller>> \o coll

(* [...ref.value, controller] *)
spread(coll, controller) == Append(coll, controller)

(* the filter as it would be if it dropped the first match only *)
filterFirst(coll, controller) ==
  IF \E i \in 1..Len(coll) : coll[i] = controller
  THEN LET i == CHOOSE j \in 1..Len(coll) :
                  coll[j] = controller /\ \A k \in 1..(j - 1) : coll[k] # controller
       IN SubSeq(coll, 1, i - 1) \o SubSeq(coll, i + 1, Len(coll))
  ELSE coll

(* ref.value.filter((outlet) => outlet !== controller) *)
filter(coll, controller) ==
  LET keep(outlet) == outlet # controller IN SelectSeq(coll, keep)

----------------------------------------------------------------------------
(* The wrapped methods.  Each takes the world W, the markers R and the     *)
(* scopes S and returns them as the handler leaves them, with the original *)
(* handlers it invoked.                                                    *)

(* initialize as it would be without the test for an existing marker *)
initializeAlways(W, R, S, c) ==
  [W |-> W,
   R |-> _initialize(R, S, c),
   S |-> effectScope(S, c),
   calls |-> callOriginal(c, "initialize", <<>>),
   seen |-> observe(W, _initialize(R, S, c))]

(* wrapped initialize *)
initialize(W, R, S, c) ==
  LET fresh == R[c].id = 0
  IN [W |-> W,
      R |-> IF fresh THEN _initialize(R, S, c) ELSE R,
      S |-> IF fresh THEN effectScope(S, c) ELSE S,
      calls |-> callOriginal(c, "initialize", <<>>),
      seen |-> observe(W, IF fresh THEN _initialize(R, S, c) ELSE R)]

(* disconnect as it would be if it set the store up again *)
disconnectReset(W, R, S, c) ==
  LET S1 == [S EXCEPT ![c][R[c].scope] = FALSE]
      S2 == effectScope(S1, c)
  IN [W |-> scopeStop(W, c, R[c].scope),
      R |-> [_initialize(R, S, c) EXCEPT ![c].scope = Len(S2[c])],
      S |-> S2,
      calls |-> callOriginal(c, "disconnect", <<>>),
      seen |-> observe(scopeStop(W, c, R[c].scope),
                       [_initialize(R, S, c) EXCEPT ![c].scope = Len(S2[c])])]

(* disconnect as it would be if it stopped the scope and kept it *)
disconnectNoNewScope(W, R, S, c) ==
  [W |-> scopeStop(W, c, R[c].scope),
   R |-> R,
   S |-> [S EXCEPT ![c][R[c].scope] = FALSE],
   calls |-> callOriginal(c, "disconnect", <<>>),
   seen |-> observe(scopeStop(W, c, R[c].scope), R)]

(* disconnect as it would be with one scope shared by every instance *)
RECURSIVE stopAll(_, _, _)
stopAll(W, R, cs) ==
  IF cs = {} THEN W
  ELSE LET d == CHOOSE x \in cs : TRUE
       IN stopAll(scopeStop(W, d, R[d].scope), R, cs \ {d})

disconnectShared(W, R, S, c) ==
  LET S1 == [S EXCEPT ![c][R[c].scope] = FALSE]
      S2 == effectScope(S1, c)
  IN [W |-> stopAll(W, R, {d \in Controllers : R[d].id # 0}),
      R |-> [R EXCEPT ![c].scope = Len(S2[c])],
      S |-> S2,
      calls |-> callOriginal(c, "disconnect", <<>>),
      seen |-> observe(stopAll(W, R, {d \in Controllers : R[d].id # 0}),
                       [R EXCEPT ![c].scope = Len(S2[c])])]

(* disconnect as it would be without scope.stop(): the scope is replaced,  *)
(* its effects stay subscribed                                             *)
disconnectNoStop(W, R, S, c) ==
  LET S1 == [S EXCEPT ![c][R[c].scope] = FALSE]
      S2 == effectScope(S1, c)
  IN [W |-> W,
      R |-> [R EXCEPT ![c].scope = Len(S2[c])],
      S |-> S2,
      calls |-> callOriginal(c, "disconnect", <<>>),
      seen |-> observe(W, [R EXCEPT ![c].scope = Len(S2[c])])]

(* wrapped disconnect *)
disconnect(W, R, S, c) ==
  LET S1 == [S EXCEPT ![c][R[c].scope] = FALSE]
      S2 == effectScope(S1, c)
  IN [W |-> scopeStop(W, c, R[c].scope),
      R |-> [R EXCEPT ![c].scope = Len(S2[c])],
      S |-> S2,
      calls |-> callOriginal(c, "disconnect", <<>>),
      seen |-> observe(scopeStop(W, c, R[c].scope),
                       [R EXCEPT ![c].scope = Len(S2[c])])]

(* the setter as it would be if it only called the original setter *)
setNoStore(W, R, S, c, key, value, eager) ==
  [W |-> W, R |-> R, S |-> S,
   calls |-> <<<<"set", c, key, value>>>>,
   seen |-> observe(W, R)]

(* the setter as it would be if it called the original setter first *)
setOriginalFirst(W, R, S, c, key, value, eager) ==
  LET w == setState(W, R, c, key, value, eager)
  IN [W |-> w.W, R |-> w.R, S |-> S,
      calls |-> <<<<"set", c, key, value>>>>,
      seen |-> observe(W, R)]

(* the value setter: the store first, then the original setter *)
set(W, R, S, c, key, value, eager) ==
  LET w == setState(W, R, c, key, value, eager)
  IN [W |-> w.W, R |-> w.R, S |-> S,
      calls |-> <<<<"set", c, key, value>>>>,
      seen |-> observe(w.W, w.R)]

(* ValueChanged as it would be if it called the original handler first *)
valueChangedOriginalFirst(W, R, S, c, key, value, previousValue, eager) ==
  LET w == setState(W, R, c, key, value, eager)
  IN [W |-> w.W, R |-> w.R, S |-> S,
      calls |-> callOriginal(c, key \o "Changed", <<value, previousValue>>),
      seen |-> observe(W, R)]

(* ValueChanged as it would be if it only called the original handler *)
valueChangedNoStore(W, R, S, c, key, value, previousValue, eager) ==
  [W |-> W, R |-> R, S |-> S,
   calls |-> callOriginal(c, key \o "Changed", <<value, previousValue>>),
   seen |-> observe(W, R)]

(* ValueChanged as it would be if it assigned the value to every value     *)
(* cell of the instance                                                    *)
RECURSIVE setStates(_, _, _, _, _, _)
setStates(W, R, c, keys, value, eager) ==
  IF keys = {} THEN [W |-> W, R |-> R]
  ELSE LET k == CHOOSE x \in keys : TRUE
           w == setState(W, R, c, k, value, eager)
       IN setStates(w.W, w.R, c, keys \ {k}, value, eager)

valueChangedEveryKey(W, R, S, c, key, value, previousValue, eager) ==
  LET w == setStates(W, R, c, values(c), value, eager)
  IN [W |-> w.W, R |-> w.R, S |-> S,
      calls |-> callOriginal(c, key \o "Changed", <<value, previousValue>>),
      seen |-> observe(w.W, w.R)]

(* wrapped <v>ValueChanged *)
valueChanged(W, R, S, c, key, value, previousValue, eager) ==
  LET w == setState(W, R, c, key, value, eager)
  IN [W |-> w.W, R |-> w.R, S |-> S,
      calls |-> callOriginal(c, key \o "Changed", <<value, previousValue>>),
      seen |-> observe(w.W, w.R)]

(* OutletConnected as it would be with ref.value.push(controller): the     *)
(* array is mutated in place and the shallowRef is not assigned            *)
outletConnectedInPlace(W, R, S, c, key, controller, eager) ==
  [W |-> W,
   R |-> [R EXCEPT ![c].state[outletsKey(key)] = Append(@, controller)],
   S |-> S,
   calls |-> callOriginal(c, key \o "Connected", <<controller, element(controller)>>),
   seen |-> observe(W, [R EXCEPT ![c].state[outletsKey(key)] =
                                    Append(@, controller)]),
   replaced |-> Array(Append(R[c].state[outletsKey(key)], controller))]

(* wrapped <o>OutletConnected *)
outletConnected(W, R, S, c, key, controller, eager) ==
  LET w == setRef(W, R, c, outletsKey(key),
                  spread(R[c].state[outletsKey(key)], controller), eager)
  IN [W |-> w.W, R |-> w.R, S |-> S,
      calls |-> callOriginal(c, key \o "Connected", <<controller, element(controller)>>),
      seen |-> observe(w.W, w.R),
      replaced |-> Array(R[c].state[outletsKey(key)])]

(* OutletDisconnected as it would be with a reactive array spliced in      *)
(* place: one notification for every element that moves, one for length    *)
RECURSIVE triggerTimes(_, _, _, _, _)
triggerTimes(W, cell, R, eager, n) ==
  IF n = 0 THEN W
  ELSE triggerTimes(Trigger(W, cell, R, eager), cell, R, eager, n - 1)

outletDisconnectedSplice(W, R, S, c, key, controller, eager) ==
  LET coll == R[c].state[outletsKey(key)]
      R1 == [R EXCEPT ![c].state[outletsKey(key)] = filter(coll, controller)]
      first == CHOOSE i \in 1..Len(coll) : coll[i] = controller
  IN [W |-> triggerTimes(W, RefCell(c, outletsKey(key)), R1, eager,
                         Len(coll) - first + 1),
      R |-> R1, S |-> S,
      calls |-> callOriginal(c, key \o "Disconnected", <<controller, element(controller)>>),
      seen |-> observe(triggerTimes(W, RefCell(c, outletsKey(key)), R1, eager,
                                    Len(coll) - first + 1), R1),
      replaced |-> Array(filter(coll, controller))]

(* wrapped <o>OutletDisconnected *)
outletDisconnected(W, R, S, c, key, controller, eager) ==
  LET w == setRef(W, R, c, outletsKey(key),
                  filter(R[c].state[outletsKey(key)], controller), eager)
  IN [W |-> w.W, R |-> w.R, S |-> S,
      calls |-> callOriginal(c, key \o "Disconnected", <<controller, element(controller)>>),
      seen |-> observe(w.W, w.R),
      replaced |-> Array(R[c].state[outletsKey(key)])]

(* connect of the test controllers (the host calls it; it is not wrapped): *)
(* the cart registers the computed total and its two readers, an item      *)
(* registers its total.  The cart of the model also hands the callback of  *)
(* the outlets test, () => cart.cartItemOutlets.length, to effect(): the   *)
(* test controllers register no effect that reads the collection itself,   *)
(* and effect() takes any callback.                                        *)
connect(W, R, S, c) ==
  IF c = Cart
  THEN LET W1 == computed(W, R, S, c, "total")
           m == Len(W1.C[c])
           W2 == effect(W1, R, S, c, "checkout", m)
           W3 == effect(W2, R, S, c, "cartTotal", m)
       IN effect(W3, R, S, c, "count", 0)
  ELSE IF c \in Items THEN effect(W, R, S, c, "itemTotal", 0)
  ELSE W

----------------------------------------------------------------------------
(* effect, computed, a computed's handle and the outlet accessors as their *)
(* caller sees them                                                        *)

(* c.effect(fn) as it would be if it set the instance up when needed *)
callEffectSetUp(W, R, S, c, fn) ==
  LET R1 == IF R[c].id = 0 THEN _initialize(R, S, c) ELSE R
      S1 == IF R[c].id = 0 THEN effectScope(S, c) ELSE S
      W1 == effect(W, R1, S1, c, fn, 0)
  IN [W |-> W1, R |-> R1, S |-> S1, calls |-> <<>>,
      seen |-> observe(W1, R1), ret |-> Returned(Undefined)]

(* c.effect(fn): before the first initialize this.__reactive is undefined  *)
(* and reading its scope throws a TypeError; effect returns nothing        *)
callEffect(W, R, S, c, fn) ==
  IF R[c].id = 0
  THEN [W |-> W, R |-> R, S |-> S, calls |-> <<>>,
        seen |-> observe(W, R), ret |-> Thrown("TypeError")]
  ELSE LET W1 == effect(W, R, S, c, fn, 0)
       IN [W |-> W1, R |-> R, S |-> S, calls |-> <<>>,
           seen |-> observe(W1, R), ret |-> Returned(Undefined)]

(* c.computed(fn): the same failure; otherwise the handle is returned *)
callComputed(W, R, S, c, fn) ==
  IF R[c].id = 0
  THEN [W |-> W, R |-> R, S |-> S, calls |-> <<>>,
        seen |-> observe(W, R), ret |-> Thrown("TypeError")]
  ELSE LET W1 == computed(W, R, S, c, fn)
       IN [W |-> W1, R |-> R, S |-> S, calls |-> <<>>,
           seen |-> observe(W1, R),
           ret |-> Returned(ComputedCell(c, Len(W1.C[c])))]

(* a handle as it would be if it ran the callback on every read *)
handleValueNoCache(W, R, S, c, m) ==
  LET C1 == Refresh([W.C EXCEPT ![c][m].dirty = TRUE], c, m, R)
  IN [W |-> [W EXCEPT !.C = C1], R |-> R, S |-> S, calls |-> <<>>,
      seen |-> observe(W, R), ret |-> Returned(C1[c][m].value)]

(* handle.value, read outside of any effect *)
handleValue(W, R, S, c, m) ==
  LET C1 == Refresh(W.C, c, m, R)
  IN [W |-> [W EXCEPT !.C = C1], R |-> R, S |-> S, calls |-> <<>>,
      seen |-> observe(W, R), ret |-> Returned(C1[c][m].value)]

(* c.<o>, read outside of any effect; the original accessor is called when *)
(* the collection is empty, and calls keeps what it did                    *)
readOutlet(W, R, S, c, key, original) ==
  [W |-> W, R |-> R, S |-> S,
   calls |-> IF hasOutletGet(R, c, key) THEN <<>>
             ELSE <<<<"get", c, key, original>>>>,
   seen |-> observe(W, R),
   ret |-> outletGet(R, c, key, original)]

(* c.has<O>, read outside of any effect *)
readHasOutlet(W, R, S, c, key) ==
  [W |-> W, R |-> R, S |-> S, calls |-> <<>>, seen |-> observe(W, R),
   ret |-> Returned(Bool(hasOutletGet(R, c, key)))]

----------------------------------------------------------------------------
(* The host and the user deliver the handlers *)

Commit(h) ==
  /\ reactive' = h.R
  /\ scopes' = h.S
  /\ effects' = h.W.E
  /\ computeds' = h.W.C
  /\ dom' = h.W.D
  /\ calls' = h.calls
  /\ seen' = h.seen
  /\ UNCHANGED <<definition, discovered>>

(* a handler the host delivers, or an assignment: nothing is handed back *)
Deliver(h) == Commit(h) /\ ret' = Returned(Undefined) /\ replaced' = NoArray

(* an outlet callback called by a caller that holds the array it read     *)
(* from the collection cell before the call                                *)
DeliverOutlet(h) ==
  Commit(h) /\ ret' = Returned(Undefined) /\ replaced' = h.replaced

(* a call whose caller looks at what it hands back *)
Call(h) == Commit(h) /\ ret' = h.ret /\ replaced' = NoArray

Initialize(c) ==
  /\ Deliver(initialize(World, reactive, scopes, c))
  /\ phase' = [phase EXCEPT ![c] = IF @ = "new" THEN "initialized" ELSE @]
  /\ UNCHANGED hostOutlets

Connect(c) ==
  /\ phase[c] \in {"initialized", "disconnected"}
  /\ HasValues(c)
  /\ Deliver([W |-> connect(World, reactive, scopes, c), R |-> reactive,
              S |-> scopes, calls |-> <<>>,
              seen |-> observe(connect(World, reactive, scopes, c), reactive)])
  /\ phase' = [phase EXCEPT ![c] = "connected"]
  /\ UNCHANGED hostOutlets

Disconnect(c) ==
  /\ phase[c] = "connected"
  /\ Len(scopes[c]) < MaxScopes
  /\ Deliver(disconnect(World, reactive, scopes, c))
  /\ phase' = [phase EXCEPT ![c] = "disconnected"]
  /\ UNCHANGED hostOutlets

(* the host disconnects c, up to MaxCycles times *)
DisconnectCycle(c) ==
  /\ phase[c] = "connected"
  /\ Len(scopes[c]) <= MaxCycles
  /\ Deliver(disconnect(World, reactive, scopes, c))
  /\ phase' = [phase EXCEPT ![c] = "disconnected"]
  /\ UNCHANGED hostOutlets

SetValue(c, key, value, eager) ==
  /\ HasMarker(c)
  /\ Deliver(set(World, reactive, scopes, c, key, value, eager))
  /\ UNCHANGED <<phase, hostOutlets>>

ValueChanged(c, key, value, previousValue, eager) ==
  /\ HasMarker(c)
  /\ Deliver(valueChanged(World, reactive, scopes, c, key, value, previousValue,
                           eager))
  /\ UNCHANGED <<phase, hostOutlets>>

OutletConnected(c, key, controller, eager) ==
  /\ HasMarker(c)
  /\ controller \in Controllers => HasValues(controller)
  /\ controller \notin hostOutlets
  /\ Deliver(outletConnected(World, reactive, scopes, c, key, controller, eager))
  /\ hostOutlets' = hostOutlets \cup {controller}
  /\ UNCHANGED phase

OutletDisconnected(c, key, controller, eager) ==
  /\ HasMarker(c)
  /\ controller \in hostOutlets
  /\ Deliver(outletDisconnected(World, reactive, scopes, c, key, controller, eager))
  /\ hostOutlets' = hostOutlets \ {controller}
  /\ UNCHANGED phase

(* the outlet callbacks called with any controller, whatever the host has  *)
(* connected: the wrapped methods are public and take any argument.  The   *)
(* caller read the plural accessor before the call and holds that array    *)
OutletConnectedAny(c, key, controller, eager) ==
  /\ HasMarker(c)
  /\ Len(reactive[c].state[outletsKey(key)]) < MaxLen
  /\ DeliverOutlet(outletConnected(World, reactive, scopes, c, key, controller,
                                   eager))
  /\ UNCHANGED <<phase, hostOutlets>>

OutletDisconnectedAny(c, key, controller, eager) ==
  /\ HasMarker(c)
  /\ DeliverOutlet(outletDisconnected(World, reactive, scopes, c, key, controller,
                                      eager))
  /\ UNCHANGED <<phase, hostOutlets>>

(* a caller registers a callback, one live registration of each at a time *)
Effect(c, fn) ==
  /\ Len(effects[c]) + Len(computeds[c]) < MaxCallbacks
  /\ \A n \in 1..Len(effects[c]) : ~(effects[c][n].active /\ effects[c][n].fn = fn)
  /\ Call(callEffect(World, reactive, scopes, c, fn))
  /\ UNCHANGED <<phase, hostOutlets>>

Computed(c, fn) ==
  /\ Len(effects[c]) + Len(computeds[c]) < MaxCallbacks
  /\ \A m \in 1..Len(computeds[c]) : ~(computeds[c][m].active /\ computeds[c][m].fn = fn)
  /\ Call(callComputed(World, reactive, scopes, c, fn))
  /\ UNCHANGED <<phase, hostOutlets>>

(* a caller reads a handle it got from computed() in the current scope *)
Read(c, m) ==
  /\ HasMarker(c)
  /\ m \in 1..Len(computeds[c])
  /\ computeds[c][m].scope = reactive[c].scope
  /\ Call(handleValue(World, reactive, scopes, c, m))
  /\ UNCHANGED <<phase, hostOutlets>>

(* a caller reads the outlet accessors of an initialized instance *)
GetOutlet(c, key, original) ==
  /\ HasMarker(c)
  /\ Call(readOutlet(World, reactive, scopes, c, key, original))
  /\ UNCHANGED <<phase, hostOutlets>>

HasOutlet(c, key) ==
  /\ HasMarker(c)
  /\ Call(readHasOutlet(World, reactive, scopes, c, key))
  /\ UNCHANGED <<phase, hostOutlets>>

----------------------------------------------------------------------------
(* the classes of the test file are loaded; no other class is being loaded *)
NoDefinition == [values |-> {}, outlets |-> {}, classes |-> <<>>]
NotLoaded == [loaded |-> FALSE]

Empty == <<"empty">>
NoTargets ==
  [checkout |-> FALSE, cartTotal |-> Empty, first |-> Empty, property |-> Empty]

Init ==
  /\ reactive = [c \in Controllers |-> NoMarker]
  /\ scopes = [c \in Controllers |-> <<>>]
  /\ effects = [c \in Controllers |-> <<>>]
  /\ computeds = [c \in Controllers |-> <<>>]
  /\ dom = NoTargets
  /\ phase = [c \in Controllers |-> "new"]
  /\ hostOutlets = {}
  /\ calls = <<>>
  /\ seen = [state |-> [c \in Controllers |-> <<>>],
             D |-> NoTargets,
             runs |-> [c \in Controllers |-> <<>>]]
  /\ ret = Returned(Undefined)
  /\ replaced = NoArray
  /\ definition = NoDefinition
  /\ discovered = NotLoaded

(* the engines the build may resolve: one that re-runs the readers of a    *)
(* computed whenever it is invalidated, one that re-runs them only when    *)
(* its value changed; they differ only where a computed is subscribed      *)
Engines(cell) == IF ComputedsOn(computeds, cell) = {} THEN {TRUE} ELSE BOOLEAN

(* the previous values the host may pass to <v>ValueChanged; the wrapped   *)
(* method only hands the argument to the original handler, so the          *)
(* deliveries differ only where one is declared                            *)
Previous(c, key) ==
  IF key \o "Changed" \in methods(c) THEN Numbers \cup {Undefined}
  ELSE {Undefined}

(* the handlers delivered to the controllers in Created; the host connects *)
(* and disconnects the ones in Attached                                    *)
Step(Created, Attached) ==
  \/ \E c \in Created : Initialize(c)
  \/ \E c \in Attached : Connect(c)
  \/ \E c \in Attached : Disconnect(c)
  \/ \E c \in Created : \E key \in values(c), value \in Numbers :
       \E eager \in Engines(PropCell(c, key)) : SetValue(c, key, value, eager)
  \/ \E c \in Created : \E key \in values(c), value \in Numbers :
       \E previousValue \in Previous(c, key) :
         \E eager \in Engines(PropCell(c, key)) :
           ValueChanged(c, key, value, previousValue, eager)
  \/ \E key \in outlets(Cart), controller \in Created \cap Items :
       \E eager \in Engines(RefCell(Cart, outletsKey(key))) :
         OutletConnected(Cart, key, controller, eager)
  \/ \E key \in outlets(Cart), controller \in Created \cap Items :
       \E eager \in Engines(RefCell(Cart, outletsKey(key))) :
         OutletDisconnected(Cart, key, controller, eager)

(* a cart and one item, every handler of both delivered *)
Next == Step({Cart, "item1"}, {Cart, "item1"})
Spec == Init /\ [][Next]_vars

(* what the original accessor of an outlet does when it is called: the     *)
(* host finds no outlet and throws, or finds one and returns it            *)
Originals == {Thrown("missing outlet")} \cup {Returned(Ref(ch)) : ch \in Children}

(* the handlers the host delivers to the parent of the lifecycle test, and *)
(* the assignments to its value; its outlet selector can match two         *)
(* controllers                                                             *)
StepParent ==
  \/ Initialize(Parent)
  \/ Connect(Parent)
  \/ Disconnect(Parent)
  \/ \E key \in values(Parent), value \in Numbers :
       \E eager \in Engines(PropCell(Parent, key)) :
         SetValue(Parent, key, value, eager)
  \/ \E key \in values(Parent), value \in Numbers :
       \E previousValue \in Previous(Parent, key) :
         \E eager \in Engines(PropCell(Parent, key)) :
           ValueChanged(Parent, key, value, previousValue, eager)
  \/ \E key \in outlets(Parent), controller \in Children :
       \E eager \in Engines(RefCell(Parent, outletsKey(key))) :
         OutletConnected(Parent, key, controller, eager)
  \/ \E key \in outlets(Parent), controller \in Children :
       \E eager \in Engines(RefCell(Parent, outletsKey(key))) :
         OutletDisconnected(Parent, key, controller, eager)

(* the parent, and a caller that registers effects through it *)
NextDebug ==
  \/ StepParent
  \/ \E fn \in {"first", "property"} : Effect(Parent, fn)

SpecDebug == Init /\ [][NextDebug]_vars

(* the parent without assignments to its value, and a caller that uses     *)
(* effect, computed, the handles and the outlet accessors                  *)
NextHandles ==
  \/ Initialize(Parent)
  \/ \E key \in values(Parent) : \E eager \in Engines(PropCell(Parent, key)) :
       ValueChanged(Parent, key, Num(0), Undefined, eager)
  \/ Connect(Parent)
  \/ Disconnect(Parent)
  \/ \E key \in outlets(Parent), controller \in Children :
       \E eager \in Engines(RefCell(Parent, outletsKey(key))) :
         OutletConnected(Parent, key, controller, eager)
  \/ \E key \in outlets(Parent), controller \in Children :
       \E eager \in Engines(RefCell(Parent, outletsKey(key))) :
         OutletDisconnected(Parent, key, controller, eager)
  \/ Effect(Parent, "first")
  \/ \E fn \in {"count", "first"} : Computed(Parent, fn)
  \/ \E m \in 1..Len(computeds[Parent]) : Read(Parent, m)
  \/ \E key \in outlets(Parent), original \in Originals :
       GetOutlet(Parent, key, original)
  \/ \E key \in outlets(Parent) : HasOutlet(Parent, key)

SpecHandles == Init /\ [][NextHandles]_vars

(* the lifecycle test's parent next to a cart and an item that declare no  *)
(* callback: every handler the host delivers, no assignment, no effect     *)
NextLog ==
  \/ \E c \in {Parent, Cart, "item1"} : Initialize(c)
  \/ Connect(Parent)
  \/ Disconnect(Parent)
  \/ \E c \in {Parent, "item1"} : \E key \in values(c), value \in Numbers :
       \E previousValue \in Previous(c, key) :
         \E eager \in Engines(PropCell(c, key)) :
           ValueChanged(c, key, value, previousValue, eager)
  \/ \E key \in outlets(Parent), controller \in Children :
       \E eager \in Engines(RefCell(Parent, outletsKey(key))) :
         OutletConnected(Parent, key, controller, eager)
  \/ \E key \in outlets(Parent), controller \in Children :
       \E eager \in Engines(RefCell(Parent, outletsKey(key))) :
         OutletDisconnected(Parent, key, controller, eager)
  \/ \E key \in outlets(Cart) :
       \E eager \in Engines(RefCell(Cart, outletsKey(key))) :
         OutletConnected(Cart, key, "item1", eager)
  \/ \E key \in outlets(Cart) :
       \E eager \in Engines(RefCell(Cart, outletsKey(key))) :
         OutletDisconnected(Cart, key, "item1", eager)

SpecLog == Init /\ [][NextLog]_vars
(* the parent with its outlet callbacks called in any order with any of    *)
(* the controllers, and a caller that registers effects and a computed     *)
(* and reads its handle                                                    *)
NextAny ==
  \/ Initialize(Parent)
  \/ \E key \in values(Parent), value \in Numbers :
       \E eager \in Engines(PropCell(Parent, key)) :
         ValueChanged(Parent, key, value, Undefined, eager)
  \/ \E key \in outlets(Parent), controller \in Children :
       \E eager \in Engines(RefCell(Parent, outletsKey(key))) :
         OutletConnectedAny(Parent, key, controller, eager)
  \/ \E key \in outlets(Parent), controller \in Children :
       \E eager \in Engines(RefCell(Parent, outletsKey(key))) :
         OutletDisconnectedAny(Parent, key, controller, eager)
  \/ \E fn \in {"first", "property"} : Effect(Parent, fn)
  \/ Computed(Parent, "count")
  \/ \E m \in 1..Len(computeds[Parent]) : Read(Parent, m)

SpecAny == Init /\ [][NextAny]_vars
(* the parent connected and disconnected several times, and a caller that *)
(* registers an effect and a computed through it at any moment             *)
NextScopes ==
  \/ Initialize(Parent)
  \/ \E key \in values(Parent), value \in Numbers :
       \E eager \in Engines(PropCell(Parent, key)) :
         ValueChanged(Parent, key, value, Undefined, eager)
  \/ Connect(Parent)
  \/ DisconnectCycle(Parent)
  \/ Effect(Parent, "property")
  \/ Computed(Parent, "count")

SpecScopes == Init /\ [][NextScopes]_vars

(* a cart and two items whose elements stay in the document *)
NextOutlets == Step({Cart} \cup Items, {Cart})
SpecOutlets == Init /\ [][NextOutlets]_vars

----------------------------------------------------------------------------
(* Properties *)

Store(c) == reactive[c].state
Collection == Store(Cart)[outletsKey("cartItemOutlet")]

(* the effects and computeds registered through c *)
EffectIds(c) == 1..Len(effects[c])
ComputedIds(c) == 1..Len(computeds[c])

(* the step is a wrapped disconnect of c: its scope was replaced *)
Disconnected(c) == HasMarker(c) /\ reactive'[c].scope # reactive[c].scope

C1_EarlierScopeSilent ==
  \A c \in Controllers : \A n \in EffectIds(c) :
    effects[c][n].scope # reactive[c].scope => effects[c][n].runs = 0

C1_DisconnectKeepsStore ==
  \A c \in Controllers : Disconnected(c) => Store(c)' = Store(c)

(* C1: once the wrapped disconnect of an instance has returned, no effect  *)
(* registered through it before the disconnect runs in any later handler   *)
(* (value setter, ValueChanged, OutletConnected, OutletDisconnected), and  *)
(* the disconnect leaves the store's values as they were.                  *)
C1_DisconnectIsolates ==
  [](C1_EarlierScopeSilent) /\ [][C1_DisconnectKeepsStore]_vars

(* item1 has disconnected, and the setter then changed one of its values   *)
(* (the cart's computed, which reads it, was evaluated again)              *)
C1_Witness ==
  /\ Len(effects["item1"]) >= 1
  /\ effects["item1"][1].scope # reactive["item1"].scope
  /\ calls # <<>> /\ calls[1][1] = "set" /\ calls[1][2] = "item1"
  /\ Len(computeds[Cart]) >= 1
  /\ computeds[Cart][Len(computeds[Cart])].evals = 1

----------------------------------------------------------------------------
Elements(seq) == {seq[i] : i \in 1..Len(seq)}
Pos(seq, a) == CHOOSE i \in 1..Len(seq) : seq[i] = a

(* the sum of price * quantity over a collection, from the stores *)
RECURSIVE SumOf(_)
SumOf(coll) ==
  IF coll = <<>> THEN Num(0)
  ELSE Add(Mul(Store(Head(coll))["priceValue"], Store(Head(coll))["quantityValue"]),
           SumOf(Tail(coll)))

(* the cart's effects of one callback that are live *)
Live(fn) == {n \in EffectIds(Cart) : effects[Cart][n].fn = fn /\ effects[Cart][n].active}
LiveComputeds == {m \in ComputedIds(Cart) : computeds[Cart][m].active}

(* C2: while the cart is connected, after every handler the displayed      *)
(* total is the sum of price * quantity over the items in the collection,  *)
(* from their current store values, and checkout is disabled exactly when  *)
(* that sum is <= 0.                                                       *)
C2_CartInSync ==
  phase[Cart] = "connected" =>
    /\ dom.cartTotal = SumOf(Collection)
    /\ dom.checkout = LeqZero(SumOf(Collection))

(* two items in the collection, and the setter has just made the total 2 *)
C2_Witness ==
  /\ phase[Cart] = "connected"
  /\ Len(Collection) = 2
  /\ dom.cartTotal = Num(2)
  /\ calls # <<>> /\ calls[1][1] = "set"

C3_Write(c, key, value) ==
  \E eager \in BOOLEAN :
    \/ /\ calls' = <<<<"set", c, key, value>>>>
       /\ SetValue(c, key, value, eager)
    \/ \E previousValue \in Previous(c, key) :
         /\ calls' = callOriginal(c, key \o "Changed", <<value, previousValue>>)
         /\ ValueChanged(c, key, value, previousValue, eager)

C3_Step ==
  \A c \in Controllers : \A key \in values(c), value \in Numbers :
    C3_Write(c, key, value) =>
      \A d \in Controllers : \A n \in EffectIds(d) :
        (effects[d][n].active /\ PropCell(c, key) \in effects[d][n].deps) =>
          effects'[d][n].runs = IF Store(c)[key] # value THEN 1 ELSE 0

(* C3: a write to a value property (setter or ValueChanged) re-runs every  *)
(* live effect whose last run read the property exactly once when it       *)
(* changes the stored value, and not at all when it stores an equal value. *)
C3_WritePropagation == [][C3_Step]_vars

(* item1 is connected and its setter has just re-run its effect *)
C3_Witness ==
  /\ phase["item1"] = "connected"
  /\ effects["item1"][Len(effects["item1"])].runs = 1
  /\ calls # <<>> /\ calls[1][1] = "set" /\ calls[1][2] = "item1"

C4_Step ==
  \A c \in Controllers : Disconnect(c) =>
    \A d \in Controllers : Store(d)' = Store(d)

(* C4: a wrapped disconnect changes no cell of any store: the values and   *)
(* the collections are after it what they were before, also when a child   *)
(* disconnects before its parent drops it and before the parent            *)
(* disconnects.                                                            *)
C4_DisconnectKeepsStores == [][C4_Step]_vars

(* the child disconnected first, the parent has just disconnected and has  *)
(* not been told that the child left                                       *)
C4_Witness ==
  /\ phase["item1"] = "disconnected"
  /\ phase[Cart] = "disconnected"
  /\ "item1" \in hostOutlets
  /\ calls = <<<<"disconnect", Cart>>>>
  /\ Store("item1")["priceValue"] = Num(1)

C5_Step ==
  \A c \in Controllers :
    /\ (HasMarker(c) /\ Initialize(c)) =>
         /\ reactive'[c] = reactive[c]
         /\ scopes'[c] = scopes[c]
         /\ calls' = <<<<"initialize", c>>>>
    /\ reactive'[c].id # reactive[c].id => (~HasMarker(c) /\ Initialize(c))

(* C5: the wrapped initialize of an instance that has a marker leaves the  *)
(* marker, the store and the scope as they are and invokes the original    *)
(* initialize once; only the first initialize creates a marker.            *)
C5_InstanceReuse == [][C5_Step]_vars

(* initialize was delivered to the connected cart *)
C5_Witness ==
  /\ phase[Cart] = "connected"
  /\ calls = <<<<"initialize", Cart>>>>
  /\ Len(Collection) = 1

C6_OneActiveScope ==
  \A c \in Controllers : HasMarker(c) =>
    /\ reactive[c].scope \in 1..Len(scopes[c])
    /\ \A s \in 1..Len(scopes[c]) : scopes[c][s] <=> s = reactive[c].scope

C6_Step ==
  \A c \in Controllers : Disconnect(c) =>
    /\ ~scopes'[c][reactive[c].scope]
    /\ reactive'[c].scope \notin 1..Len(scopes[c])

(* C6: after the first initialize exactly one of the scopes created for an *)
(* instance is active, and it is the current one; a wrapped disconnect     *)
(* makes the previous scope inactive and installs one that is none of the  *)
(* earlier scopes.                                                         *)
C6_ScopeReplaced == [](C6_OneActiveScope) /\ [][C6_Step]_vars

(* item1 has disconnected and is connected again, in its second scope *)
C6_Witness ==
  /\ phase["item1"] = "connected"
  /\ Len(scopes["item1"]) = 2
  /\ effects["item1"][Len(effects["item1"])].scope = 2

C7_OthersUntouched ==
  \A c \in Controllers : Disconnect(c) =>
    \A d \in Controllers \ {c} :
      /\ \A n \in EffectIds(d) :
           /\ effects'[d][n].active = effects[d][n].active
           /\ effects'[d][n].deps = effects[d][n].deps
      /\ \A m \in ComputedIds(d) :
           /\ computeds'[d][m].active = computeds[d][m].active
           /\ computeds'[d][m].deps = computeds[d][m].deps

C7_StillReads ==
  \A a \in Items :
    (phase[Cart] = "connected" /\ phase[a] = "disconnected" /\ a \in Elements(Collection)) =>
      /\ dom.cartTotal = SumOf(Collection)
      /\ \A m \in LiveComputeds : \A key \in values(a) :
           PropCell(a, key) \in computeds[Cart][m].deps

C7_StillRuns ==
  \A a \in Items : \A key \in values(a) :
    (/\ phase[Cart] = "connected" /\ phase[a] = "disconnected"
     /\ a \in Elements(Collection)
     /\ phase'[Cart] = "connected" /\ Store(a)'[key] # Store(a)[key]) =>
      /\ \A m \in LiveComputeds : computeds'[Cart][m].evals = 1
      /\ SumOf(Collection)' # SumOf(Collection) =>
           \A n \in Live("checkout") \cup Live("cartTotal") : effects'[Cart][n].runs = 1

(* C7: the wrapped disconnect of an instance stops nothing registered      *)
(* through another instance; while the cart is connected and holds an item *)
(* that has already disconnected, a change of the item's values still      *)
(* re-evaluates the cart's computed and the cart shows the item's values.  *)
C7_DisconnectStopsOwnOnly ==
  [](C7_StillReads) /\ [][C7_OthersUntouched /\ C7_StillRuns]_vars

(* item1 has disconnected, the cart still holds it, and a setter on item1  *)
(* has just re-run the cart's effect                                       *)
C7_Witness ==
  /\ phase[Cart] = "connected"
  /\ phase["item1"] = "disconnected"
  /\ "item1" \in Elements(Collection)
  /\ calls # <<>> /\ calls[1][1] = "set" /\ calls[1][2] = "item1"
  /\ \E n \in Live("cartTotal") : effects[Cart][n].runs = 1

C8_Connected ==
  HasMarker(Cart) =>
    /\ Elements(Collection) = hostOutlets
    /\ Len(Collection) = Cardinality(hostOutlets)

C8_Order ==
  HasMarker(Cart) =>
    /\ \A a, b \in Elements(Collection) \cap Elements(Collection') :
         Pos(Collection, a) < Pos(Collection, b) =>
           Pos(Collection', a) < Pos(Collection', b)
    /\ \A a \in Elements(Collection') \ Elements(Collection) :
         Pos(Collection', a) = Len(Collection')

(* C8: when the host connects an outlet only while it is not connected and *)
(* disconnects it only while it is, the collection holds exactly the       *)
(* outlets connected and not yet disconnected, each once, in the order of  *)
(* their connection, also for callbacks delivered after the instance's own *)
(* disconnect.                                                             *)
C8_CollectionTracksHost == [](C8_Connected) /\ [][C8_Order]_vars

(* item2 was connected before item1, and the cart has disconnected *)
C8_Witness ==
  /\ phase[Cart] = "disconnected"
  /\ Collection = <<"item2", "item1">>

ChangedKeys(c) ==
  IF HasMarker(c) /\ reactive'[c].id = reactive[c].id
  THEN {k \in DOMAIN Store(c) : Store(c)'[k] # Store(c)[k]}
  ELSE {}

ChangedCells ==
  UNION {{PropCell(c, k) : k \in ChangedKeys(c) \cap values(c)} \cup
         {RefCell(c, k) : k \in ChangedKeys(c) \cap outletKeys(c)} : c \in Controllers}

(* what the last run of an effect read, the reads of the computeds it read *)
(* included                                                                *)
ReadsOf(d, n) ==
  effects[d][n].deps \cup
  UNION {computeds[x[2]][x[3]].deps : x \in {y \in effects[d][n].deps : y[1] = "computed"}}

C9_Step ==
  /\ Cardinality(ChangedCells) <= 1
  /\ \A d \in Controllers :
       /\ \A n \in EffectIds(d) :
            effects'[d][n].runs > 0 => ReadsOf(d, n) \cap ChangedCells # {}
       /\ \A m \in ComputedIds(d) :
            computeds'[d][m].evals > 0 => computeds[d][m].deps \cap ChangedCells # {}

(* C9: a handler changes at most one store cell, and re-runs an effect or  *)
(* re-evaluates a computed only when the cell is one its last run read     *)
(* (for an effect: read itself or through a computed it read).             *)
C9_NonReadersSilent == [][C9_Step]_vars

(* a setter on item1 has just re-run item1's effect and the cart's, and    *)
(* has left the cart's count effect alone                                  *)
C9_Witness ==
  /\ phase[Cart] = "connected"
  /\ phase["item1"] = "connected"
  /\ calls # <<>> /\ calls[1][1] = "set" /\ calls[1][2] = "item1"
  /\ effects["item1"][Len(effects["item1"])].runs = 1
  /\ \E n \in Live("cartTotal") : effects[Cart][n].runs = 1
  /\ \E n \in Live("count") : effects[Cart][n].runs = 0

C10_Step ==
  (HasMarker(Cart) /\ hostOutlets' # hostOutlets) =>
    LET cell == RefCell(Cart, outletsKey("cartItemOutlet")) IN
    /\ \A n \in EffectIds(Cart) :
         (effects[Cart][n].active /\ cell \in effects[Cart][n].deps) =>
           effects'[Cart][n].runs = 1
    /\ \A m \in ComputedIds(Cart) :
         (computeds[Cart][m].active /\ cell \in computeds[Cart][m].deps) =>
           /\ computeds'[Cart][m].invals = 1
           /\ computeds'[Cart][m].evals = 1

(* C10: one OutletConnected or OutletDisconnected invalidates every live   *)
(* computed that read the collection exactly once, and re-runs every live  *)
(* effect that read the collection itself exactly once.                    *)
C10_OneNotification == [][C10_Step]_vars

(* the last outlet has just been removed: the count effect ran once and    *)
(* the computed was invalidated once                                       *)
C10_Witness ==
  /\ phase[Cart] = "connected"
  /\ Collection = <<>>
  /\ \E n \in Live("count") : effects[Cart][n].runs = 1
  /\ \E m \in LiveComputeds : computeds[Cart][m].invals = 1

C14_Step ==
  \A c \in Controllers : \A key \in values(c), value \in Numbers :
    (\E eager \in BOOLEAN : SetValue(c, key, value, eager)) =>
      /\ calls' = <<<<"set", c, key, value>>>>
      /\ seen'.state[c][key] = value
      /\ seen' = observe([E |-> effects', C |-> computeds', D |-> dom'], reactive')
      /\ valueGet(reactive', c, key) = value

(* C14: every assignment to a value property writes the value to the      *)
(* store and then calls the original setter once with it, also when the    *)
(* value is the one already stored; the property then reads as assigned.   *)
C14_SetterOrder == [][C14_Step]_vars

(* the value already stored was assigned again: item1's live effect did    *)
(* not run, the original setter was called                                 *)
C14_Witness ==
  /\ phase["item1"] = "connected"
  /\ calls = <<<<"set", "item1", "quantityValue", Num(1)>>>>
  /\ effects["item1"][Len(effects["item1"])].active
  /\ effects["item1"][Len(effects["item1"])].runs = 0
  /\ Store("item1")["quantityValue"] = Num(1)

----------------------------------------------------------------------------
(* The parent's collection, and the callbacks registered through it *)
DebugOutlets == Store(Parent)[outletsKey("debugOutlet")]
LiveEffects(fn) ==
  {n \in EffectIds(Parent) : effects[Parent][n].fn = fn /\ effects[Parent][n].active}
LiveHandles(fn) ==
  {m \in ComputedIds(Parent) : computeds[Parent][m].fn = fn /\ computeds[Parent][m].active}

(* the live handles that have been evaluated, and so have read something *)
ReadHandles(fn) == {m \in LiveHandles(fn) : computeds[Parent][m].deps # {}}

(* a live handle that is not dirty holds what its callback gives now *)
C11_CacheFresh ==
  \A m \in ComputedIds(Parent) :
    (computeds[Parent][m].active /\ ~computeds[Parent][m].dirty) =>
      computeds[Parent][m].value =
        ComputedValue(computeds[Parent][m].fn, Parent, reactive)

(* a read runs the callback once if a dependency changed since the last    *)
(* evaluation and not at all otherwise, and hands back the current result; *)
(* no other step runs the callback of a handle                             *)
C11_Step ==
  \A m \in ComputedIds(Parent) :
    /\ Read(Parent, m) =>
         /\ computeds'[Parent][m].evals = IF computeds[Parent][m].dirty THEN 1 ELSE 0
         /\ ~computeds'[Parent][m].dirty
         /\ ret' = Returned(ComputedValue(computeds[Parent][m].fn, Parent, reactive))
    /\ computeds'[Parent][m].evals > 0 => Read(Parent, m)
    /\ (/\ computeds'[Parent][m].active
        /\ ~computeds[Parent][m].dirty /\ computeds'[Parent][m].dirty) =>
         computeds'[Parent][m].invals = 1

C12_Step ==
  \A key \in outlets(Parent) :
    /\ (\E original \in Originals : GetOutlet(Parent, key, original)) =>
         /\ reactive' = reactive
         /\ scopes' = scopes
         /\ IF Len(DebugOutlets) > 0
            THEN ret' = Returned(Ref(DebugOutlets[1])) /\ calls' = <<>>
            ELSE /\ Len(calls') = 1
                 /\ calls'[1][1] = "get"
                 /\ ret' = calls'[1][4]
    /\ HasOutlet(Parent, key) =>
         /\ reactive' = reactive
         /\ scopes' = scopes
         /\ ret' = Returned(Bool(DebugOutlets # <<>>))

(* C12: the accessor o hands back the first element of a non-empty         *)
(* collection and otherwise what the original accessor does, its error     *)
(* included; has+O is true exactly for a non-empty collection; neither     *)
(* read changes the store.                                                 *)
C12_OutletAccessors == [][C12_Step]_vars

(* the collection is empty and the original accessor's error reached the   *)
(* caller                                                                  *)
C12_Witness ==
  /\ phase[Parent] = "connected"
  /\ DebugOutlets = <<>>
  /\ hostOutlets = {}
  /\ calls = <<<<"get", Parent, "debugOutlet", Thrown("missing outlet")>>>>
  /\ ret = Thrown("missing outlet")

C13_Nothing ==
  ~HasMarker(Parent) =>
    /\ reactive[Parent] = NoMarker
    /\ scopes[Parent] = <<>>
    /\ effects[Parent] = <<>>
    /\ computeds[Parent] = <<>>

C13_Step ==
  (/\ ~HasMarker(Parent)
   /\ \/ Effect(Parent, "first")
      \/ \E fn \in {"count", "first"} : Computed(Parent, fn)) =>
    /\ ret' = Thrown("TypeError")
    /\ reactive' = reactive
    /\ scopes' = scopes
    /\ effects' = effects
    /\ computeds' = computeds
    /\ dom' = dom

(* C13: effect or computed called on an instance before its wrapped        *)
(* initialize throws, runs no callback and registers nothing: no marker,   *)
(* store, scope, effect or computed exists afterwards.                     *)
C13_FailsBeforeInitialize == [](C13_Nothing) /\ [][C13_Step]_vars

(* the call has just thrown *)
C13_Witness ==
  /\ ~HasMarker(Parent)
  /\ ret = Thrown("TypeError")

(* an outlet callback that leaves the first element of the parent's        *)
(* collection in place                                                     *)
FirstKept ==
  /\ HasMarker(Parent)
  /\ hostOutlets' # hostOutlets
  /\ DebugOutlets # <<>> /\ DebugOutlets' # <<>>
  /\ DebugOutlets'[1] = DebugOutlets[1]

C17_SilentStep ==
  FirstKept =>
    /\ \A n \in LiveEffects("first") : effects'[Parent][n].runs = 0
    /\ \A m \in ReadHandles("first") : computeds'[Parent][m].invals = 0

(* C17 as stated: an effect or computed that reads only the singular       *)
(* outlet accessor is left alone by an outlet callback that keeps the      *)
(* first element.                                                          *)
C17_SingularReaderSilent == [][C17_SilentStep]_vars

C17_Step ==
  (HasMarker(Parent) /\ hostOutlets' # hostOutlets) =>
    /\ \A n \in LiveEffects("first") : effects'[Parent][n].runs = 1
    /\ \A m \in ReadHandles("first") :
         /\ computeds'[Parent][m].invals = 1
         /\ computeds'[Parent][m].dirty

(* C17: every OutletConnected and OutletDisconnected re-runs an effect     *)
(* that reads only the singular outlet accessor once, and invalidates a    *)
(* computed that reads only it once, also when the first element of the    *)
(* collection stays the same.                                              *)
C17_SingularReaderReruns == [][C17_Step]_vars

(* child2 was appended behind child1: the effect ran again and read child1 *)
(* again                                                                   *)
C17_Witness ==
  /\ HasMarker(Parent)
  /\ DebugOutlets = <<"child1", "child2">>
  /\ calls = <<<<"debugOutletConnected", Parent, "child2", element("child2")>>>>
  /\ \E n \in LiveEffects("first") : effects[Parent][n].runs = 1
  /\ dom.first = Ref("child1")

----------------------------------------------------------------------------
(* an assignment of value followed by the host's callback for it, and the  *)
(* callback alone, both delivered in the present state; the counters run   *)
(* on from the assignment to the callback                                  *)
SetThenChanged(c, key, value, eager) ==
  LET b == set(World, reactive, scopes, c, key, value, eager)
  IN valueChanged(b.W, b.R, b.S, c, key, value, Undefined, eager)
ChangedAlone(c, key, value, eager) ==
  valueChanged(World, reactive, scopes, c, key, value, Undefined, eager)

(* both leave the same stores, the same targets and the same runs of every *)
(* effect, and the original handler finds the same                         *)
C15_SameAsAlone ==
  \A key \in values(Parent), value \in Numbers :
    \A eager \in Engines(PropCell(Parent, key)) :
      HasMarker(Parent) =>
        ChangedAlone(Parent, key, value, eager) =
          SetThenChanged(Parent, key, value, eager)

(* the callback the host delivered leaves its value in the store cell,     *)
(* whatever assignments and callbacks came before it                       *)
C15_Step ==
  \A key \in values(Parent) :
    (/\ calls' # <<>> /\ calls'[1][1] = key \o "Changed"
     /\ \E eager \in Engines(PropCell(Parent, key)) :
          ValueChanged(Parent, key, calls'[1][3], calls'[1][4], eager)) =>
      /\ Store(Parent)'[key] = calls'[1][3]
      /\ valueGet(reactive', Parent, key) = calls'[1][3]

(* C15: the setter and ValueChanged converge: after the host's callback    *)
(* for a value the store cell holds that value, whatever assignments and   *)
(* callbacks came before; an assignment of x followed by ValueChanged(x)   *)
(* leaves the same store and the same number of runs of every effect as    *)
(* ValueChanged(x) alone.                                                  *)
C15_PathsConverge == [](C15_SameAsAlone) /\ [][C15_Step]_vars

(* the callback came for the value an assignment had already stored: the   *)
(* live effect on the value did not run again                              *)
C15_Witness ==
  /\ HasMarker(Parent)
  /\ calls = <<<<"propertyValueChanged", Parent, Num(1), Num(0)>>>>
  /\ Store(Parent)["propertyValue"] = Num(1)
  /\ dom.property = Num(1)
  /\ \E n \in LiveEffects("property") : effects[Parent][n].runs = 0

----------------------------------------------------------------------------
(* what the original handlers were called with when the host delivers a    *)
(* handler to c in the present state                                       *)
InitializeCalls(c) == initialize(World, reactive, scopes, c).calls
DisconnectCalls(c) == disconnect(World, reactive, scopes, c).calls
ChangedCalls(c, key, value, previousValue) ==
  {valueChanged(World, reactive, scopes, c, key, value, previousValue, eager).calls :
     eager \in Engines(PropCell(c, key))}
ConnectedCalls(c, key, controller) ==
  {outletConnected(World, reactive, scopes, c, key, controller, eager).calls :
     eager \in Engines(RefCell(c, outletsKey(key)))}
DisconnectedCalls(c, key, controller) ==
  {outletDisconnected(World, reactive, scopes, c, key, controller, eager).calls :
     eager \in Engines(RefCell(c, outletsKey(key)))}

(* each delivery to the parent, which declares every handler, calls the    *)
(* original of that name once with the arguments delivered                 *)
C16_Declared ==
  /\ InitializeCalls(Parent) = <<<<"initialize", Parent>>>>
  /\ HasMarker(Parent) =>
       /\ DisconnectCalls(Parent) = <<<<"disconnect", Parent>>>>
       /\ \A value \in Numbers, previousValue \in Numbers \cup {Undefined} :
            ChangedCalls(Parent, "propertyValue", value, previousValue) =
              {<<<<"propertyValueChanged", Parent, value, previousValue>>>>}
       /\ \A controller \in Children :
            /\ ConnectedCalls(Parent, "debugOutlet", controller) =
                 {<<<<"debugOutletConnected", Parent, controller,
                     element(controller)>>>>}
            /\ DisconnectedCalls(Parent, "debugOutlet", controller) =
                 {<<<<"debugOutletDisconnected", Parent, controller,
                     element(controller)>>>>}

(* a delivery to the item or the cart, which declare no callback, calls    *)
(* nothing and writes the store                                            *)
C16_Undeclared ==
  /\ HasMarker("item1") =>
       \A key \in values("item1"), value \in Numbers :
         \A eager \in Engines(PropCell("item1", key)) :
           LET h == valueChanged(World, reactive, scopes, "item1", key, value,
                                 Undefined, eager)
           IN h.calls = <<>> /\ h.R["item1"].state[key] = value
  /\ HasMarker(Cart) =>
       \A eager \in Engines(RefCell(Cart, "cartItemOutlets")) :
         LET h == outletConnected(World, reactive, scopes, Cart,
                                  "cartItemOutlet", "item1", eager)
             g == outletDisconnected(World, reactive, scopes, Cart,
                                     "cartItemOutlet", "item1", eager)
         IN /\ h.calls = <<>>
            /\ h.R[Cart].state["cartItemOutlets"] = Append(Collection, "item1")
            /\ g.calls = <<>>
            /\ g.R[Cart].state["cartItemOutlets"] = <<>>

(* an original handler is called only by the delivery of the wrapped       *)
(* handler of its name with its arguments, and once                        *)
C16_Step ==
  calls' # <<>> =>
    LET call == calls'[1]
    IN /\ Len(calls') = 1
       /\ CASE call[1] = "initialize" -> Initialize(call[2])
            [] call[1] = "disconnect" -> Disconnect(call[2])
            [] call[1] = "propertyValueChanged" ->
                 \E eager \in Engines(PropCell(Parent, "propertyValue")) :
                   ValueChanged(call[2], "propertyValue", call[3], call[4], eager)
            [] call[1] = "debugOutletConnected" ->
                 /\ call[4] = element(call[3])
                 /\ \E eager \in Engines(RefCell(Parent, "debugOutlets")) :
                      OutletConnected(call[2], "debugOutlet", call[3], eager)
            [] call[1] = "debugOutletDisconnected" ->
                 /\ call[4] = element(call[3])
                 /\ \E eager \in Engines(RefCell(Parent, "debugOutlets")) :
                      OutletDisconnected(call[2], "debugOutlet", call[3], eager)
            [] OTHER -> FALSE

(* C16: each delivery of initialize, disconnect, ValueChanged,             *)
(* OutletConnected or OutletDisconnected calls the original handler of     *)
(* that name exactly once with the arguments delivered, and an original is *)
(* called by nothing else, so the originals are called in the order of the *)
(* deliveries; where no callback is declared the store is still written    *)
(* and no original is called.                                              *)
C16_OriginalsFollowDeliveries ==
  [](C16_Declared /\ C16_Undeclared) /\ [][C16_Step]_vars

(* the parent's original was called for the second outlet with the         *)
(* controller and its element, next to an initialized item and cart whose  *)
(* stores were written without any call                                    *)
C16_Witness ==
  /\ calls = <<<<"debugOutletConnected", Parent, "child2", element("child2")>>>>
  /\ HasMarker(Parent) /\ DebugOutlets = <<"child1", "child2">>
  /\ HasMarker("item1") /\ Store("item1")["priceValue"] = Num(1)
  /\ HasMarker(Cart) /\ Collection = <<"item1">>

----------------------------------------------------------------------------
C18_Step ==
  \A controller \in Children :
    (\E eager \in Engines(RefCell(Parent, "debugOutlets")) :
       OutletConnectedAny(Parent, "debugOutlet", controller, eager)) =>
      /\ DebugOutlets' = DebugOutlets \o <<controller>>
      /\ Len(DebugOutlets') = Len(DebugOutlets) + 1
      /\ \A i \in 1..Len(DebugOutlets) : DebugOutlets'[i] = DebugOutlets[i]
      /\ DebugOutlets'[Len(DebugOutlets')] = controller
      /\ replaced' = Array(DebugOutlets)

(* C18: OutletConnected(c) puts a new sequence into the collection cell,   *)
(* the previous one followed by c: the earlier elements keep their         *)
(* positions, c is last, the length grows by one, and the array that was   *)
(* in the cell is left as it was.                                          *)
C18_AppendsNewSequence == [][C18_Step]_vars

(* child2 was appended behind child1; the array taken out of the cell      *)
(* still holds child1 alone                                                *)
C18_Witness ==
  /\ HasMarker(Parent)
  /\ calls = <<<<"debugOutletConnected", Parent, "child2", element("child2")>>>>
  /\ DebugOutlets = <<"child1", "child2">>
  /\ replaced = Array(<<"child1">>)

(* the sequence without every entry equal to a, its other entries in order *)
RECURSIVE Without(_, _)
Without(seq, a) ==
  IF seq = <<>> THEN <<>>
  ELSE IF Head(seq) = a THEN Without(Tail(seq), a)
  ELSE <<Head(seq)>> \o Without(Tail(seq), a)

C19_Step ==
  \A controller \in Children :
    (\E eager \in Engines(RefCell(Parent, "debugOutlets")) :
       OutletDisconnectedAny(Parent, "debugOutlet", controller, eager)) =>
      /\ DebugOutlets' = Without(DebugOutlets, controller)
      /\ \A i \in 1..Len(DebugOutlets') : DebugOutlets'[i] # controller
      /\ Len(DebugOutlets') =
           Cardinality({i \in 1..Len(DebugOutlets) : DebugOutlets[i] # controller})
      /\ (\A i \in 1..Len(DebugOutlets) : DebugOutlets[i] # controller) =>
           DebugOutlets' = DebugOutlets
      /\ replaced' = Array(DebugOutlets)
      /\ reactive' =
           [reactive EXCEPT ![Parent].state["debugOutlets"] = DebugOutlets']

(* C19: OutletDisconnected(c) puts into the collection cell the previous   *)
(* sequence without every entry that is c, the other entries in their      *)
(* order; without c in the collection the contents stay as they are; no    *)
(* other cell of any store is written.                                     *)
C19_DropsEveryMatch == [][C19_Step]_vars

(* child1 was in the collection twice, around child2: both entries are     *)
(* gone, child2 and the value cell are as they were                        *)
C19_Witness ==
  /\ HasMarker(Parent)
  /\ calls = <<<<"debugOutletDisconnected", Parent, "child1", element("child1")>>>>
  /\ replaced = Array(<<"child1", "child2", "child1">>)
  /\ DebugOutlets = <<"child2">>
  /\ Store(Parent)["propertyValue"] = Num(1)

----------------------------------------------------------------------------
(* the step is a write to the parent: an assignment to its value, or a     *)
(* ValueChanged, OutletConnected or OutletDisconnected delivered to it     *)
ParentWrite ==
  /\ HasMarker(Parent)
  /\ calls' # <<>>
  /\ LET call == calls'[1]
     IN CASE call[1] = "set" ->
               /\ call[2] = Parent
               /\ \E eager \in Engines(PropCell(Parent, call[3])) :
                    SetValue(Parent, call[3], call[4], eager)
          [] call[1] = "propertyValueChanged" ->
               \E eager \in Engines(PropCell(Parent, "propertyValue")) :
                 ValueChanged(Parent, "propertyValue", call[3], call[4], eager)
          [] call[1] = "debugOutletConnected" ->
               \E eager \in Engines(RefCell(Parent, "debugOutlets")) :
                 OutletConnected(Parent, "debugOutlet", call[3], eager)
          [] call[1] = "debugOutletDisconnected" ->
               \E eager \in Engines(RefCell(Parent, "debugOutlets")) :
                 OutletDisconnected(Parent, "debugOutlet", call[3], eager)
          [] OTHER -> FALSE

(* the cell it writes and what it writes there *)
WrittenKey ==
  CASE calls'[1][1] = "set" -> calls'[1][3]
    [] calls'[1][1] = "propertyValueChanged" -> "propertyValue"
    [] OTHER -> "debugOutlets"
WrittenValue ==
  CASE calls'[1][1] = "set" -> calls'[1][4]
    [] calls'[1][1] = "propertyValueChanged" -> calls'[1][3]
    [] calls'[1][1] = "debugOutletConnected" -> Append(DebugOutlets, calls'[1][3])
    [] OTHER -> Without(DebugOutlets, calls'[1][3])

(* the live effects of the parent that the write notifies *)
Notified ==
  {n \in EffectIds(Parent) :
     /\ effects[Parent][n].active
     /\ IF WrittenKey \in values(Parent)
        THEN /\ PropCell(Parent, WrittenKey) \in effects[Parent][n].deps
             /\ Store(Parent)[WrittenKey] # WrittenValue
        ELSE RefCell(Parent, WrittenKey) \in effects[Parent][n].deps}

C20_Step ==
  ParentWrite =>
    /\ seen'.state[Parent][WrittenKey] = WrittenValue
    /\ \A n \in Notified :
         /\ seen'.runs[Parent][n] = 1
         /\ effects'[Parent][n].runs = 1
    /\ seen'.D = dom'
    /\ seen' = observe([E |-> effects', C |-> computeds', D |-> dom'], reactive')
    /\ LiveEffects("property") # {} =>
         seen'.D.property = seen'.state[Parent]["propertyValue"]
    /\ LiveEffects("first") # {} =>
         seen'.D.first = firstOutlet(Parent, reactive')

(* C20: in the value setter and in a wrapped ValueChanged, OutletConnected *)
(* and OutletDisconnected, the original setter or handler is invoked after *)
(* the store was written and every live effect that reads the written cell *)
(* has run again: it finds the written store and the effects' new output,  *)
(* and nothing changes between its invocation and the return of the call.  *)
C20_WriteBeforeOriginal == [][C20_Step]_vars

(* the original propertyValueChanged found the new value in the store and  *)
(* in the target of the live effect, which had run once                    *)
C20_Witness ==
  /\ HasMarker(Parent)
  /\ calls = <<<<"propertyValueChanged", Parent, Num(1), Num(0)>>>>
  /\ seen.state[Parent]["propertyValue"] = Num(1)
  /\ seen.D.property = Num(1)
  /\ \E n \in LiveEffects("property") :
       seen.runs[Parent][n] = 1 /\ effects[Parent][n].runs = 1

----------------------------------------------------------------------------
(* the effects the connect of a test controller registers *)
ConnectEffects(c) ==
  IF c = Cart THEN {"checkout", "cartTotal", "count"}
  ELSE IF c \in Items THEN {"itemTotal"} ELSE {}

(* the copies of effect fn registered through c, live and ever registered  *)
LiveCopies(c, fn) ==
  {n \in EffectIds(c) : effects[c][n].fn = fn /\ effects[c][n].active}
Copies(c, fn) == {n \in EffectIds(c) : effects[c][n].fn = fn}

(* a connected controller has one live copy of each effect of its connect, *)
(* however often it was connected before                                   *)
C21_OneLiveCopy ==
  \A c \in Controllers : phase[c] = "connected" =>
    \A fn \in ConnectEffects(c) : Cardinality(LiveCopies(c, fn)) = 1

(* in one handler the copies of an effect run at most once altogether; a   *)
(* change of a value of a connected item runs its itemTotal once, a change *)
(* of the collection of the connected cart runs its count once             *)
C21_Step ==
  \A c \in Controllers : (HasMarker(c) /\ phase[c] = "connected"
                          /\ phase'[c] = "connected") =>
    \A fn \in ConnectEffects(c) :
      LET ran == {n \in Copies(c, fn) : effects'[c][n].runs > 0}
      IN /\ Cardinality(ran) <= 1
         /\ \A n \in ran : effects'[c][n].runs = 1 /\ effects'[c][n].active
         /\ (c \in Items /\ Store(c)' # Store(c)) => Cardinality(ran) = 1
         /\ (c = Cart /\ fn = "count" /\ Store(c)' # Store(c)) =>
              Cardinality(ran) = 1

(* C21: effects do not pile up over reconnects: after any number of        *)
(* connect/disconnect cycles and one more connect there is exactly one     *)
(* live copy of each effect the connect registers, and one change of a     *)
(* cell it reads runs it once, not once per earlier connect.               *)
C21_NoAccumulation == [](C21_OneLiveCopy) /\ [][C21_Step]_vars

(* item1 was connected, disconnected and connected again: two copies of    *)
(* itemTotal were registered, the first is stopped, and the setter's       *)
(* change ran the second once                                              *)
C21_Witness ==
  /\ phase["item1"] = "connected"
  /\ Len(scopes["item1"]) = 2
  /\ Cardinality(Copies("item1", "itemTotal")) = 2
  /\ ~effects["item1"][1].active /\ effects["item1"][1].runs = 0
  /\ effects["item1"][2].active /\ effects["item1"][2].runs = 1
  /\ calls # <<>> /\ calls[1][1] = "set"

----------------------------------------------------------------------------
(* the live effects and computeds of the parent are bound to its current   *)
(* scope, which is active; the stopped ones to a scope disposed of         *)
C22_BoundToLiveScope ==
  HasMarker(Parent) =>
    /\ scopes[Parent][reactive[Parent].scope]
    /\ \A n \in EffectIds(Parent) :
         IF effects[Parent][n].active
         THEN effects[Parent][n].scope = reactive[Parent].scope
         ELSE ~scopes[Parent][effects[Parent][n].scope]
    /\ \A m \in ComputedIds(Parent) :
         IF computeds[Parent][m].active
         THEN computeds[Parent][m].scope = reactive[Parent].scope
         ELSE ~scopes[Parent][computeds[Parent][m].scope]

(* a call of effect or computed on an initialized instance registers, in   *)
(* any phase, into the current scope; what is live stays live until the    *)
(* next disconnect, which stops it                                         *)
C22_Step ==
  HasMarker(Parent) =>
    /\ Effect(Parent, "property") =>
         /\ Len(effects'[Parent]) = Len(effects[Parent]) + 1
         /\ effects'[Parent][Len(effects'[Parent])].active
         /\ effects'[Parent][Len(effects'[Parent])].scope = reactive[Parent].scope
         /\ scopes'[Parent][reactive[Parent].scope]
    /\ Computed(Parent, "count") =>
         /\ Len(computeds'[Parent]) = Len(computeds[Parent]) + 1
         /\ computeds'[Parent][Len(computeds'[Parent])].active
         /\ computeds'[Parent][Len(computeds'[Parent])].scope = reactive[Parent].scope
         /\ scopes'[Parent][reactive[Parent].scope]
    /\ IF Disconnected(Parent)
       THEN /\ \A n \in EffectIds(Parent) : ~effects'[Parent][n].active
            /\ \A m \in ComputedIds(Parent) : ~computeds'[Parent][m].active
       ELSE /\ \A n \in EffectIds(Parent) :
                 effects'[Parent][n].active = effects[Parent][n].active
            /\ \A m \in ComputedIds(Parent) :
                 computeds'[Parent][m].active = computeds[Parent][m].active

(* C22: an effect or computed registered through an initialized instance   *)
(* is never bound to a disposed scope: also after a disconnect and before  *)
(* the next connect it is bound to the new, active scope, stays live while *)
(* the controller is disconnected, and is stopped by the next disconnect.  *)
C22_NeverInDisposedScope == [](C22_BoundToLiveScope) /\ [][C22_Step]_vars

(* the effect was registered in the scope the first disconnect installed   *)
(* and the second disconnect has just stopped it                           *)
C22_StoppedByNextDisconnect ==
  /\ phase[Parent] = "disconnected"
  /\ Len(scopes[Parent]) = 3
  /\ calls = <<<<"disconnect", Parent>>>>
  /\ \E n \in EffectIds(Parent) :
       effects[Parent][n].scope = 2 /\ ~effects[Parent][n].active

(* the effect was registered while the parent was disconnected and has run *)
(* again for a change delivered before the next connect                    *)
C22_Witness ==
  /\ phase[Parent] = "disconnected"
  /\ calls # <<>> /\ calls[1][1] = "propertyValueChanged"
  /\ \E n \in EffectIds(Parent) :
       /\ effects[Parent][n].scope = 2 /\ reactive[Parent].scope = 2
       /\ effects[Parent][n].active /\ effects[Parent][n].runs = 1

----------------------------------------------------------------------------
(* the keys of the store of an initialized instance *)
C23_Keys ==
  \A c \in Controllers : HasMarker(c) =>
    DOMAIN Store(c) = values(c) \cup {outletsKey(key) : key \in outlets(c)}

(* the first initialize leaves every value cell undefined and every        *)
(* collection empty; every later handler keeps the store object and its    *)
(* keys                                                                    *)
C23_Step ==
  \A c \in Controllers :
    /\ (~HasMarker(c) /\ reactive'[c].id # 0) =>
         /\ \A key \in values(c) : reactive'[c].state[key] = Undefined
         /\ \A key \in outlets(c) : reactive'[c].state[outletsKey(key)] = <<>>
    /\ HasMarker(c) =>
         /\ DOMAIN reactive'[c].state = DOMAIN Store(c)
         /\ reactive'[c].stateId = reactive[c].stateId

(* C23: the keys of an instance's store are fixed by its first initialize: *)
(* the value names and the outlet names with an s; the value cells start   *)
(* undefined and the collections empty; no setter, ValueChanged,           *)
(* OutletConnected, OutletDisconnected, disconnect or repeated initialize  *)
(* adds or removes a key.                                                  *)
C23_KeysFixed == [](C23_Keys) /\ [][C23_Step]_vars

(* the cart, with item1 in its collection, was disconnected and has just   *)
(* been initialized again: its store has the one key it started with       *)
C23_Witness ==
  /\ phase[Cart] = "disconnected"
  /\ calls = <<<<"initialize", Cart>>>>
  /\ DOMAIN Store(Cart) = {"cartItemOutlets"}
  /\ Collection = <<"item1">>
  /\ DOMAIN Store("item1") = {"priceValue", "quantityValue"}
  /\ Store("item1")["priceValue"] = Num(1)

----------------------------------------------------------------------------
(* the step is OutletDisconnected for a controller that is not in the      *)
(* parent's collection                                                     *)
DisconnectedAbsent ==
  /\ HasMarker(Parent)
  /\ calls' # <<>> /\ calls'[1][1] = "debugOutletDisconnected"
  /\ \A i \in 1..Len(DebugOutlets) : DebugOutlets[i] # calls'[1][3]
  /\ \E eager \in Engines(RefCell(Parent, "debugOutlets")) :
       OutletDisconnectedAny(Parent, "debugOutlet", calls'[1][3], eager)

C24_Step ==
  DisconnectedAbsent =>
    /\ DebugOutlets' = DebugOutlets
    /\ replaced' = Array(DebugOutlets)
    /\ \A n \in EffectIds(Parent) :
         (/\ effects[Parent][n].active
          /\ RefCell(Parent, "debugOutlets") \in effects[Parent][n].deps) =>
           effects'[Parent][n].runs = 1
    /\ \A m \in ComputedIds(Parent) :
         (/\ computeds[Parent][m].active
          /\ RefCell(Parent, "debugOutlets") \in computeds[Parent][m].deps) =>
           /\ computeds'[Parent][m].invals = 1
           /\ computeds'[Parent][m].dirty

(* C24: OutletDisconnected(c) for a controller that is not in the          *)
(* collection still assigns a new array to the collection cell: every live *)
(* effect that read the collection runs again once and every computed that *)
(* read it is invalidated, although the contents are as before.            *)
C24_AbsentStillNotifies == [][C24_Step]_vars

(* child2 was not in the collection <<child1>>: the collection is as       *)
(* before, and the effect and the computed that read it were notified      *)
C24_Witness ==
  /\ HasMarker(Parent)
  /\ calls = <<<<"debugOutletDisconnected", Parent, "child2", element("child2")>>>>
  /\ DebugOutlets = <<"child1">>
  /\ replaced = Array(<<"child1">>)
  /\ \E n \in LiveEffects("first") : effects[Parent][n].runs = 1
  /\ \E m \in LiveHandles("count") :
       computeds[Parent][m].invals = 1 /\ computeds[Parent][m].dirty

----------------------------------------------------------------------------
(* Loading a class: what useStimulusReactive finds on its prototype *)

(* the names a loaded class may declare as values and as outlets, and the  *)
(* members the classes it is made from may define themselves               *)
ValueNames == {"price", "hash", "hasMore"}
OutletNames == {"debug", "hashTag"}
MemberNames == {"initialize", "priceValueChanged", "totalValue"}

StartsWith(name, prefix) ==
  Len(name) >= Len(prefix) /\ SubSeq(name, 1, Len(prefix)) = prefix
EndsWith(name, suffix) ==
  /\ Len(name) >= Len(suffix)
  /\ SubSeq(name, Len(name) - Len(suffix) + 1, Len(name)) = suffix
Contains(name, part) ==
  \E i \in 1..(Len(name) - Len(part) + 1) :
    SubSeq(name, i, i + Len(part) - 1) = part

(* key[0].toUpperCase() + key.substring(1) *)
toUpperCase ==
  [ch \in {"p", "h", "d"} |-> IF ch = "p" THEN "P" ELSE IF ch = "h" THEN "H" ELSE "D"]
capitalize(key) == toUpperCase[SubSeq(key, 1, 1)] \o SubSeq(key, 2, Len(key))

(* the own members of the prototype the host registers for a class: the    *)
(* accessors it generates for the declared values and outlets, with an     *)
(* existence flag for each                                                 *)
blessed(def) ==
  UNION {{n \o "Value", "has" \o capitalize(n) \o "Value"} : n \in def.values}
  \cup
  UNION {{n \o "Outlet", n \o "Outlets", n \o "OutletElement",
          n \o "OutletElements", "has" \o capitalize(n) \o "Outlet"} :
           n \in def.outlets}

(* the members of the base Controller that the patterns look at *)
ControllerBase == {"initialize", "connect", "disconnect"}

(* definition.controllerConstructor.prototype and its ancestors, the most  *)
(* derived first: the registered prototype, the classes the user wrote,    *)
(* the base Controller                                                     *)
prototype(def) == <<blessed(def)>> \o def.classes \o <<ControllerBase>>

(* pattern.test(name) for the three patterns of useStimulusReactive:       *)
(*   /^(?!has).+Value$/    /^(?!has).+Outlet$/                            *)
(*   /^initialize|disconnect|(.+)(ValueChanged|OutletConnected|            *)
(*     OutletDisconnected)$/                                               *)
test(pattern, name) ==
  CASE pattern = "values" ->
         /\ ~StartsWith(name, "has")
         /\ EndsWith(name, "Value") /\ Len(name) > Len("Value")
    [] pattern = "outlets" ->
         /\ ~StartsWith(name, "has")
         /\ EndsWith(name, "Outlet") /\ Len(name) > Len("Outlet")
    [] pattern = "methods" ->
         \/ StartsWith(name, "initialize")
         \/ Contains(name, "disconnect")
         \/ \E suffix \in {"ValueChanged", "OutletConnected", "OutletDisconnected"} :
              EndsWith(name, suffix) /\ Len(name) > Len(suffix)

(* a property descriptor is known by the prototype that owns it *)
descriptor(level, name) == [owner |-> level, name |-> name]

(* the loop over one prototype's own descriptors as it would be if a later *)
(* match replaced an earlier one                                           *)
ownDescriptorsOverwrite(chain, level, pattern, matches) ==
  LET found == {name \in chain[level] : test(pattern, name)}
  IN [name \in DOMAIN matches \cup found |->
        IF name \in found THEN descriptor(level, name) ELSE matches[name]]

(* for (const name in descriptors)                                         *)
(*   if (pattern.test(name) && !(name in matches)) matches[name] = ...     *)
ownDescriptors(chain, level, pattern, matches) ==
  LET found == {name \in chain[level] :
                  test(pattern, name) /\ name \notin DOMAIN matches}
  IN [name \in DOMAIN matches \cup found |->
        IF name \in found THEN descriptor(level, name) ELSE matches[name]]

RECURSIVE walk(_, _, _, _, _)
walk(chain, level, pattern, checkAncestors, matches) ==
  IF level > Len(chain) THEN matches
  ELSE LET own == ownDescriptors(chain, level, pattern, matches)
       IN IF checkAncestors
          THEN walk(chain, level + 1, pattern, checkAncestors, own)
          ELSE own

getPropertyDescriptors(chain, pattern, checkAncestors) ==
  walk(chain, 1, pattern, checkAncestors, <<>>)

(* useStimulusReactive: the three searches, and the names it then defines  *)
(* on the prototype                                                        *)
useStimulusReactive(def) ==
  LET found == [values |-> getPropertyDescriptors(prototype(def), "values", FALSE),
                outlets |-> getPropertyDescriptors(prototype(def), "outlets", FALSE),
                methods |-> getPropertyDescriptors(prototype(def), "methods", TRUE)]
  IN [loaded |-> TRUE,
      values |-> found.values,
      outlets |-> found.outlets,
      methods |-> found.methods,
      wrapped |-> {"effect", "computed", "initialize", "disconnect"}
                  \cup {key \o "Changed" : key \in DOMAIN found.values}
                  \cup {key \o "Connected" : key \in DOMAIN found.outlets}
                  \cup {key \o "Disconnected" : key \in DOMAIN found.outlets}]

(* the original a wrapped handler calls: methods[name].value for the       *)
(* lifecycle handlers, methods[name]?.value for the callbacks              *)
original(found, name) ==
  IF name \in DOMAIN found.methods
  THEN [calls |-> <<<<name, found.methods[name].owner>>>>,
        ret |-> Returned(Undefined)]
  ELSE [calls |-> <<>>,
        ret |-> IF name \in {"initialize", "disconnect"}
                THEN Thrown("TypeError") ELSE Returned(Undefined)]

(* the classes that may be loaded *)
Declared(Names) == {N \in SUBSET Names : Cardinality(N) <= MaxDeclared}
RECURSIVE Chains(_)
Chains(depth) ==
  IF depth = 0 THEN {<<>>}
  ELSE Chains(depth - 1) \cup
       {<<members>> \o cs : members \in SUBSET MemberNames,
                            cs \in {c \in Chains(depth - 1) : Len(c) = depth - 1}}
Definitions ==
  {[values |-> N, outlets |-> O, classes |-> cs] :
     N \in Declared(ValueNames), O \in Declared(OutletNames),
     cs \in Chains(MaxDepth) \ {<<>>}}

InitDiscovery ==
  /\ reactive = [c \in Controllers |-> NoMarker]
  /\ scopes = [c \in Controllers |-> <<>>]
  /\ effects = [c \in Controllers |-> <<>>]
  /\ computeds = [c \in Controllers |-> <<>>]
  /\ dom = NoTargets
  /\ phase = [c \in Controllers |-> "new"]
  /\ hostOutlets = {}
  /\ calls = <<>>
  /\ seen = [state |-> [c \in Controllers |-> <<>>],
             D |-> NoTargets,
             runs |-> [c \in Controllers |-> <<>>]]
  /\ ret = Returned(Undefined)
  /\ replaced = NoArray
  /\ definition \in Definitions
  /\ discovered = NotLoaded

(* static afterLoad: useStimulusReactive(identifier, application) *)
AfterLoad ==
  /\ ~discovered.loaded
  /\ discovered' = useStimulusReactive(definition)
  /\ UNCHANGED <<reactive, scopes, effects, computeds, dom, phase, hostOutlets,
                 calls, seen, ret, replaced, definition>>

(* a wrapped handler of the loaded class is called and looks its original up *)
Original(name) ==
  /\ discovered.loaded
  /\ name \in discovered.wrapped \ {"effect", "computed"}
  /\ calls' = original(discovered, name).calls
  /\ ret' = original(discovered, name).ret
  /\ UNCHANGED <<reactive, scopes, effects, computeds, dom, phase, hostOutlets,
                 seen, replaced, definition, discovered>>

HandlerNames ==
  {"initialize", "disconnect"}
  \cup {n \o "ValueChanged" : n \in ValueNames}
  \cup {n \o "OutletConnected" : n \in OutletNames}
  \cup {n \o "OutletDisconnected" : n \in OutletNames}

NextDiscovery ==
  \/ AfterLoad
  \/ \E name \in HandlerNames : Original(name)

SpecDiscovery == InitDiscovery /\ [][NextDiscovery]_vars

----------------------------------------------------------------------------
(* the accessors generated for the declared names *)
DeclaredAccessors(Names, suffix) == {n \o suffix : n \in Names}

(* C25: for a class that declares the value names N, the value accessors   *)
(* that are discovered and wrapped are exactly n + "Value" for n in N,     *)
(* from the prototype's own members only: every declared accessor is       *)
(* among them, also when n starts with "has" (hashValue), and no           *)
(* has<N>Value flag is; the same for the outlets with the Outlet suffix.   *)
C25_ExactlyDeclared ==
  discovered.loaded =>
    /\ DOMAIN discovered.values = DeclaredAccessors(definition.values, "Value")
    /\ DOMAIN discovered.outlets = DeclaredAccessors(definition.outlets, "Outlet")
    /\ \A key \in DeclaredAccessors(definition.values, "Value") :
         key \o "Changed" \in discovered.wrapped

(* what the patterns do find: the declared accessors whose name does not   *)
(* start with "has", each owned by the class's own prototype               *)
C25_NotHasPrefixed ==
  discovered.loaded =>
    /\ DOMAIN discovered.values =
         {key \in DeclaredAccessors(definition.values, "Value") :
            ~StartsWith(key, "has")}
    /\ DOMAIN discovered.outlets =
         {key \in DeclaredAccessors(definition.outlets, "Outlet") :
            ~StartsWith(key, "has")}
    /\ \A key \in DOMAIN discovered.values : discovered.values[key].owner = 1
    /\ \A key \in DOMAIN discovered.outlets : discovered.outlets[key].owner = 1

(* a class that declares the value hash has been loaded *)
C25_HashLoaded ==
  /\ discovered.loaded
  /\ definition.values = {"price", "hash"}
  /\ "totalValue" \in definition.classes[1]
  /\ DOMAIN discovered.values = {"priceValue"}

----------------------------------------------------------------------------
(* the prototypes of the loaded class's chain that declare a name, and the *)
(* most derived of them                                                    *)
Levels(name) ==
  {level \in 1..Len(prototype(definition)) : name \in prototype(definition)[level]}
MostDerived(name) ==
  CHOOSE level \in Levels(name) : \A other \in Levels(name) : level <= other

C26_Recorded ==
  discovered.loaded =>
    \A name \in HandlerNames :
      IF Levels(name) = {}
      THEN name \notin DOMAIN discovered.methods
      ELSE /\ name \in DOMAIN discovered.methods
           /\ discovered.methods[name] = descriptor(MostDerived(name), name)

C26_Step ==
  \A name \in HandlerNames :
    Original(name) =>
      calls' = IF Levels(name) = {} THEN <<>>
               ELSE <<<<name, MostDerived(name)>>>>

(* C26: of a lifecycle or callback name declared at several levels of the  *)
(* prototype chain, the handler that is recorded, and that the wrapped     *)
(* method calls as the original, is the most derived declaration; a name   *)
(* declared only on an ancestor is found, and a name declared nowhere has  *)
(* no original.                                                            *)
C26_MostDerivedWins == [](C26_Recorded) /\ [][C26_Step]_vars

(* initialize is declared by the class, by its parent and by Controller,   *)
(* priceValueChanged only by the parent, disconnect only by Controller,    *)
(* debugOutletConnected nowhere: the wrapped initialize has called the     *)
(* class's own                                                             *)
C26_Witness ==
  /\ discovered.loaded
  /\ definition.classes = <<{"initialize"}, {"initialize", "priceValueChanged"}>>
  /\ definition.values = {"price"} /\ definition.outlets = {"debug"}
  /\ Levels("initialize") = {2, 3, 4}
  /\ calls = <<<<"initialize", 2>>>>
  /\ discovered.methods["priceValueChanged"].owner = 3
  /\ discovered.methods["disconnect"].owner = 4
  /\ "debugOutletConnected" \in discovered.wrapped
  /\ "debugOutletConnected" \notin DOMAIN discovered.methods
====
